---- MODULE Spec2Model ----
(***************************************************************************)
(* Model of the UberEats scraper engine (src/scraper/main.py, menu.py,     *)
(* app.py): the listing traversal of scrape_page / get_establishment, the  *)
(* per-establishment visit of get_info with its item-extraction thread,    *)
(* the dedup ledger, categorize_and_save_establishments, the classifier    *)
(* detect_establishment_type and the job stop flag.                        *)
(*                                                                         *)
(* Texts are modelled as follows.  An establishment name is a sequence of  *)
(* words (the text split on single spaces); "" is the empty sequence and   *)
(* "N/A" is the one-word name <<"N/A">>.  The word vocabulary holds no     *)
(* word that has a suffix keyword of normalize_store_name as a proper      *)
(* substring, so str.replace(' kw', '') acts on whole words.               *)
(* Texts are written in ASCII: EUR stands for the euro sign, * for the     *)
(* bullet, and accents are dropped.                                        *)
(* A dict is a function whose DOMAIN is its key set, so a missing key is   *)
(* a key that is not in the DOMAIN.                                        *)
(***************************************************************************)
EXTENDS Integers, Sequences, FiniteSets, TLC

(***************************************************************************)
(* Bounds of the model.                                                    *)
(***************************************************************************)
MaxCards == 2      \* cards the listing page can hold
MaxPages == 2      \* load-more clicks are followed up to this page_count
MaxCap   == 2      \* largest max_establishments a run is started with

(***************************************************************************)
(* dict helpers                                                            *)
(***************************************************************************)
HasKey(d, k) == k \in DOMAIN d

Get(d, k, default) == IF k \in DOMAIN d THEN d[k] ELSE default

Put(d, k, v) == [j \in (DOMAIN d) \cup {k} |-> IF j = k THEN v ELSE d[j]]

Pop(d, ks) == [j \in (DOMAIN d) \ ks |-> d[j]]

\* Python truthiness of a str held as an atom
TruthyStr(s) == s # ""

(***************************************************************************)
(* The marketplace: the pages behind the establishment URLs.               *)
(* Each URL has a page with a display name, the classifier's verdict on    *)
(* it and the items an extraction of the page produces.                    *)
(***************************************************************************)
Urls == {"u1", "u2", "u3"}

NA == <<"N/A">>

PageName(u) ==
  CASE u = "u1" -> <<"Paul", "Market">>
    [] u = "u2" -> <<"Paul", "City">>
    [] u = "u3" -> <<"Paul">>
    [] OTHER    -> NA

\* what detect_establishment_type answers on the page of u
PageType(u) == IF u \in {"u1", "u2"} THEN "store" ELSE "restaurant"

\* a restaurant item as clean_restaurant_items emits it
MenuItem(t, d) == [title |-> t, description |-> d, link |-> "N/A"]

\* a store product as process_store_items emits it
StoreProduct(d) == [description |-> d]

\* the list the extraction of a page returns when it completes; the
\* information page of a store shows one text long enough for a product
PageItems(u) ==
  CASE u = "u1/info" -> <<StoreProduct("Tomates, olives et thon")>>
    [] u = "u1" -> <<StoreProduct("Fresh organic tomatoes from Provence"),
                     StoreProduct("(4,80 EUR/kg)")>>
    [] u = "u2" -> <<StoreProduct("9 pcs * 23.5 g")>>
    [] u = "u3" -> <<MenuItem("Salade", "Tomates, olives et thon"),
                     MenuItem("Croque", "N/A")>>
    [] OTHER    -> <<>>

\* a listing card: its href and the name shown on the card
Card(h, n) == [href |-> h, name |-> n]

Cards ==
  { Card("", <<>>),
    Card("u1", <<"Paul", "Market">>),
    Card("u2", <<"Paul", "City">>),
    Card("u2", <<>>),
    Card("u3", <<"Paul">>) }

(***************************************************************************)
(* normalize_store_name  (main.py 431-454)                                 *)
(***************************************************************************)
Lower(w) ==
  CASE w = "Paul"   -> "paul"
    [] w = "Market" -> "market"
    [] w = "City"   -> "city"
    [] w = "Chez"   -> "chez"
    [] OTHER        -> w

LowerName(n) == [i \in 1..Len(n) |-> Lower(n[i])]

suffixes_to_remove ==
  << "sprint", "express", "city", "market", "super", "hyper",
     "proximite", "contact", "shop", "store", "supermarche" >>

\* normalized.replace(' kw', ''): every occurrence of kw after a space goes
RemoveAfterSpace(n, kw) ==
  IF n = <<>> THEN n
  ELSE <<n[1]>> \o SelectSeq(Tail(n), LAMBDA w : w # kw)

\* normalized.replace('kw ', ''): every occurrence of kw before a space goes
RemoveBeforeSpace(n, kw) ==
  IF n = <<>> THEN n
  ELSE SelectSeq(SubSeq(n, 1, Len(n) - 1), LAMBDA w : w # kw) \o <<n[Len(n)]>>

StripKeyword(n, kw) ==
  LET a == IF Len(n) >= 2 /\ n[Len(n)] = kw THEN RemoveAfterSpace(n, kw) ELSE n
  IN  IF Len(a) >= 2 /\ a[1] = kw THEN RemoveBeforeSpace(a, kw) ELSE a

RECURSIVE StripAll(_, _)
StripAll(n, i) ==
  IF i > Len(suffixes_to_remove) THEN n
  ELSE \* x is the value of n, computed once
       CHOOSE r \in { StripAll(StripKeyword(x, suffixes_to_remove[i]), i + 1) :
                        x \in {n} } : TRUE

normalize_store_name(name) ==
  IF name = <<>> \/ name = NA THEN <<>>
  ELSE StripAll(LowerName(name), 1)

(***************************************************************************)
(* Texts of item descriptions.  A description is an atom; what the         *)
(* predicates read of it (its length, whether it holds a letter, which     *)
(* pattern of patterns_to_remove matches it, whether it is made of digits  *)
(* and symbols only) is tabulated for the vocabulary of the model.         *)
(***************************************************************************)
TextLen(d) ==
  CASE d = "Fresh organic tomatoes from Provence" -> 36
    [] d = "Tomates, olives et thon"              -> 23
    [] d = "(4,80 EUR/kg)"                          -> 11
    [] d = "9 pcs * 23.5 g"                       -> 14
    [] d = "12,50 EUR / 3"                          -> 11
    [] d = "Pain bio"                             -> 8
    [] d = "Pain bios"                            -> 9
    [] d = "Tomates"                              -> 7
    [] d = " Lait entier "                        -> 13
    [] d = "Lait entier"                          -> 11
    [] d = "Text of 299 characters"               -> 299
    [] d = "Text of 300 characters"               -> 300
    [] d = "N/A"                                  -> 3
    [] d = "Salade"                               -> 6
    [] d = "Croque"                               -> 6
    [] d = "<b>Salade</b>"                        -> 13
    [] d = "ab"                                   -> 2
    [] d = "Ajouter"                              -> 7
    [] d = "Ajouter au panier"                    -> 17
    [] d = "<b>Tomates, olives et thon</b>"       -> 30
    [] d = "Carrefour"                            -> 9
    [] d = "4 x 500ml"                            -> 9
    [] OTHER                                      -> 0

\* str.strip()
Strip(d) == IF d = " Lait entier " THEN "Lait entier" ELSE d

\* re.search(r'[a-zA-Z...]', desc) on the texts of the model
TextHasLetter(d) == d \notin { "", "12,50 EUR / 3" }

\* some pattern of patterns_to_remove matches (main.py 1577-1587)
MatchesPricePattern(d) == d \in { "(4,80 EUR/kg)", "9 pcs * 23.5 g" }

\* re.match(r'^[\(\)\d\sEUR,./-]+$', desc)  (main.py 1590)
OnlyDigitsAndSymbols(d) == d \in { "12,50 EUR / 3" }

\* main.py 1569-1597
is_price_only_description(description) ==
  IF ~TruthyStr(description) \/ TextLen(Strip(description)) < 3 THEN TRUE
  ELSE LET desc == Strip(description)
       IN  IF MatchesPricePattern(desc) THEN TRUE
           ELSE IF OnlyDigitsAndSymbols(desc) THEN TRUE
           ELSE IF TextLen(desc) < 8 \/ ~TextHasLetter(desc) THEN TRUE
           ELSE FALSE

\* a cleaner that keeps every product
KeepProduct_Always(product) == TRUE

\* the test of one product in clean_store_products (main.py 1604-1616)
KeepProduct(product) ==
  LET description == Strip(Get(product, "description", ""))
  IN  /\ TruthyStr(description)
      /\ ~is_price_only_description(description)
      /\ TextLen(description) > 8
      /\ TextHasLetter(description)
      /\ TextLen(description) < 300

clean_store_products(products) == SelectSeq(products, KeepProduct)

\* a filter that keeps every record
UniqueByUrl_KeepsAll(data, seen_urls) == data

\* the first-occurrence-wins filter on the url key (main.py 1623-1637,
\* 1703-1710): a record is kept when its url is non-empty and new
RECURSIVE UniqueByUrl(_, _)
UniqueByUrl(data, seen_urls) ==
  IF data = <<>> THEN <<>>
  ELSE LET url == Get(Head(data), "url", "")
       IN  IF TruthyStr(url) /\ url \notin seen_urls
           THEN <<Head(data)>> \o UniqueByUrl(Tail(data), seen_urls \cup {url})
           ELSE UniqueByUrl(Tail(data), seen_urls)

\* a deduplication that drops the first record whatever its URL
remove_duplicate_stores_DropsFirst(stores_data) ==
  IF stores_data = <<>> THEN <<>> ELSE Tail(stores_data)

remove_duplicate_stores(stores_data) == UniqueByUrl(stores_data, {})

\* steps 1 and 2 of clean_and_deduplicate_file (main.py 1657-1667)
CleanStore(store) ==
  LET cleaned_products == clean_store_products(Get(store, "products", <<>>))
  IN  Put(Put(store, "products", cleaned_products),
          "products_count", Len(cleaned_products))

CleanedStores(stores_data) ==
  LET unique_stores == remove_duplicate_stores(stores_data)
  IN  [i \in 1..Len(unique_stores) |-> CleanStore(unique_stores[i])]

(***************************************************************************)
(* Re-categorization and the split into the two output lists               *)
(* (categorize_and_save_establishments, main.py 1383-1416)                 *)
(***************************************************************************)
\* menu.py 655-679
detect_establishment_type_from_items(menu_items) ==
  IF menu_items = <<>> THEN "unknown"
  ELSE LET HasTitle(item) == LET title == Get(item, "title", "")
                             IN  TruthyStr(title) /\ title # "N/A"
           title_description_count == Len(SelectSeq(menu_items, HasTitle))
           description_only_count  == Len(menu_items) - title_description_count
       IN  IF description_only_count > title_description_count
           THEN "store" ELSE "restaurant"

\* the record rewritten as a store without the two pops of 1408-1409
ConvertToStore_KeepsMenu(establishment, menu_items) ==
  LET WithDescription(item) == TruthyStr(Get(item, "description", ""))
      kept     == SelectSeq(menu_items, WithDescription)
      products == [i \in 1..Len(kept) |-> [description |-> kept[i].description]]
  IN  Put(Put(Put(establishment, "establishment_type", "store"),
              "products", products),
          "products_count", Len(products))

\* main.py 1401-1409: the record rewritten as a store
ConvertToStore(establishment, menu_items) ==
  LET WithDescription(item) == TruthyStr(Get(item, "description", ""))
      kept     == SelectSeq(menu_items, WithDescription)
      products == [i \in 1..Len(kept) |-> [description |-> kept[i].description]]
  IN  Pop(Put(Put(Put(establishment, "establishment_type", "store"),
                  "products", products),
              "products_count", Len(products)),
          {"menu_items", "menu_items_count"})

\* items_with_titles < items_with_descriptions * 0.3  (main.py 1392-1396);
\* in integers: 10 * titles < 3 * descriptions
MostlyUntitled(menu_items) ==
  LET WithTitle(item)       == TruthyStr(Get(item, "title", ""))
      WithDescription(item) == TruthyStr(Get(item, "description", ""))
  IN  10 * Len(SelectSeq(menu_items, WithTitle))
        < 3 * Len(SelectSeq(menu_items, WithDescription))

\* one iteration of the loop of main.py 1383-1410: the record afterwards
Recategorize(establishment) ==
  LET establishment_type == Get(establishment, "establishment_type", "restaurant")
      menu_items         == Get(establishment, "menu_items", <<>>)
  IN  IF /\ establishment_type = "restaurant"
         /\ menu_items # <<>>
         /\ MostlyUntitled(menu_items)
         /\ detect_establishment_type_from_items(menu_items) = "store"
      THEN ConvertToStore(establishment, menu_items)
      ELSE establishment

Categorized(data) == [i \in 1..Len(data) |-> Recategorize(data[i])]

IsStore(establishment) ==
  Get(establishment, "establishment_type", "restaurant") = "store"

IsRestaurant(establishment) == ~IsStore(establishment)

\* main.py 1412-1416
StoresOf(data) == SelectSeq(Categorized(data), IsStore)

RestaurantsOf(data) == SelectSeq(Categorized(data), IsRestaurant)

(***************************************************************************)
(* Files.  A file is [exists, data]; a missing file has exists = FALSE.    *)
(***************************************************************************)
NoFile == [exists |-> FALSE, data |-> <<>>]

FileOf(data) == [exists |-> TRUE, data |-> data]

\* main.py 1418-1426 / 1428-1436: open(filename, 'w') and json.dump of the
\* list of this run, only when the list is not empty
SaveList(file, list, write_fails) ==
  IF list # <<>> /\ ~write_fails THEN FileOf(list) ELSE file

\* post_process_scraped_files, restaurants part (main.py 1695-1720)
PostProcessRestaurants(file) ==
  IF ~file.exists THEN file
  ELSE LET unique_restaurants == UniqueByUrl(file.data, {})
       IN  IF Len(unique_restaurants) # Len(file.data)
           THEN FileOf(unique_restaurants) ELSE file

\* clean_and_deduplicate_file (main.py 1639-1685)
PostProcessStores(file) ==
  IF ~file.exists THEN file ELSE FileOf(CleanedStores(file.data))

(***************************************************************************)
(* detect_establishment_type (main.py 472-548).  What the classifier       *)
(* reads of a page: the chain keywords the lower-cased URL contains, the   *)
(* keywords the lower-cased title contains, the number of carousel         *)
(* controls, the phrases the lower-cased page source contains, and which   *)
(* of the reads raise.                                                     *)
(***************************************************************************)
MaxCarousel == 9    \* carousel controls a page of the model can have

definite_store_indicators ==
  { "carrefour", "franprix", "monoprix", "casino", "lidl", "aldi", "leclerc",
    "intermarche", "auchan", "cora", "picard", "metro", "costco",
    "supermarche", "supermarket" }

grocery_titles ==
  { "supermarche", "supermarket", "epicerie", "courses", "grocery",
    "livraison de courses" }

\* main.py 518
carousel_content_terms == { "produits frais", "epicerie", "courses en ligne" }

strong_grocery_keywords ==
  { "livraison de courses", "courses en ligne", "produits frais",
    "epicerie en ligne", "supermarche en ligne", "grocery delivery" }

HighCarouselCount == 8

MidCarouselCount == 5

MinStrongMatches == 2

\* Method 1, main.py 476-486
UrlSaysStore(page) ==
  \E indicator \in definite_store_indicators : indicator \in page.url_words

\* Method 2, main.py 489-501
TitleSaysStore(page) ==
  /\ ~page.title_raises
  /\ \E title_keyword \in grocery_titles : title_keyword \in page.title_words

\* Method 3 with the strong keywords as the terms of the middle band
CarouselsSayStore_StrongKeywords(page) ==
  /\ ~page.carousel_raises
  /\ \/ page.carousel_count >= HighCarouselCount
     \/ /\ page.carousel_count >= MidCarouselCount
        /\ ~page.source_raises_first
        /\ \E term \in strong_grocery_keywords : term \in page.source_words

\* Method 3, main.py 504-524
CarouselsSayStore(page) ==
  /\ ~page.carousel_raises
  /\ \/ page.carousel_count >= HighCarouselCount
     \/ /\ page.carousel_count >= MidCarouselCount
        /\ ~page.source_raises_first
        /\ \E term \in carousel_content_terms : term \in page.source_words

\* Method 4 satisfied by a single strong keyword
ContentSaysStore_OneHit(page) ==
  /\ ~page.source_raises_second
  /\ \E keyword \in strong_grocery_keywords : keyword \in page.source_words

\* Method 4, main.py 527-540
ContentSaysStore(page) ==
  /\ ~page.source_raises_second
  /\ LET strong_matches ==
           Cardinality({ keyword \in strong_grocery_keywords :
                           keyword \in page.source_words })
     IN  strong_matches >= MinStrongMatches

detect_establishment_type(page) ==
  IF UrlSaysStore(page) THEN "store"
  ELSE IF TitleSaysStore(page) THEN "store"
  ELSE IF CarouselsSayStore(page) THEN "store"
  ELSE IF ContentSaysStore(page) THEN "store"
  ELSE "restaurant"

\* the pages the classifier is tried on.  A text that contains a phrase
\* contains the phrases inside it, and the page source contains the title.
UrlWordSets == { {}, {"carrefour"} }

TitleWordSets == { {}, {"courses"}, {"courses", "livraison de courses"} }

SourceWordSets ==
  { s \in SUBSET { "livraison de courses", "courses en ligne", "produits frais",
                   "epicerie en ligne", "epicerie" } :
      "epicerie en ligne" \in s => "epicerie" \in s }

Pages ==
  { p \in [ url_words : UrlWordSets, title_words : TitleWordSets,
            title_raises : BOOLEAN, carousel_count : 0..MaxCarousel,
            carousel_raises : BOOLEAN, source_words : SourceWordSets,
            source_raises_first : BOOLEAN, source_raises_second : BOOLEAN ] :
      /\ "livraison de courses" \in p.title_words
           => "livraison de courses" \in p.source_words
      /\ p.carousel_raises => p.carousel_count = 0 }

NoPage ==
  [ url_words |-> {}, title_words |-> {}, title_raises |-> FALSE,
    carousel_count |-> 0, carousel_raises |-> FALSE, source_words |-> {},
    source_raises_first |-> FALSE, source_raises_second |-> FALSE ]

\* max_menu_items = None
NoLimit == -1

\* no page is being extracted
NoContent == [kind |-> "none"]

\* the listing page, and the information page of an establishment
ListingPage == "listing"

InfoPage(url) ==
  CASE url = "u1" -> "u1/info"
    [] url = "u2" -> "u2/info"
    [] url = "u3" -> "u3/info"
    [] OTHER      -> "info"

\* the thread has read no page
NoPageRead == "none"

MaxJobs == 2    \* POST /scrape requests

JobIds == 1..MaxJobs

\* no request was made yet
NoJobs ==
  [ id \in JobIds |-> [request |-> "none", worker |-> "none", status |-> "none"] ]

(***************************************************************************)
(* State                                                                   *)
(***************************************************************************)
VARIABLES
  listing,              \* the store-card elements of the listing page, in order
  restaurants_file,     \* restaurants_{pc}.json
  stores_file,          \* stores_{pc}.json
  max_restaurants,      \* the run's cap; 0 stands for None
  scraped_urls,         \* self.scraped_urls
  scraped_store_names,  \* self.scraped_store_names
  establishments_data,  \* self.establishments_data
  pc,                   \* where the run is
  page_count,           \* scrape_page
  total_scraped,        \* scrape_page
  remaining,            \* get_establishment's max_restaurants; 0 stands for None
  index,                \* get_establishment: position in cards (from 1)
  successful_count,     \* get_establishment
  handles,              \* driver.window_handles
  focus,                \* the window the driver is switched to
  est,                  \* get_info: establishment_data
  info_ok,              \* get_info returned a dict (FALSE: it returned None)
  items,                \* get_info: the nonlocal cell items
  items_error,          \* get_info: the nonlocal cell items_error (TRUE: set)
  thread,               \* items_thread: "idle", "running", "done"
  join_timed_out,       \* the thread was alive when join(timeout=60) returned
  job_status,           \* job.status
  opened,               \* the URLs opened in a new tab, in order
  result,               \* what scrape_page returned
  files_before,         \* the two files as they were when the run started
  saved_from,           \* establishments_data as the save step found it
  content,              \* what the extraction reads of the establishment page
  max_menu_items,       \* get_info's max_menu_items; NoLimit stands for None
  current_page,         \* the page the window the driver is on shows
  items_from,           \* the page the thread extracted its list from
  active_jobs,          \* app.py: the ids in active_jobs
  jobs,                 \* app.py: per job id, its request, worker and status
  cls_page,             \* the page detect_establishment_type is called on
  cls_type              \* what detect_establishment_type returned

vars ==
  << listing, restaurants_file, stores_file, max_restaurants, scraped_urls,
     scraped_store_names, establishments_data, pc, page_count, total_scraped,
     remaining, index, successful_count, handles, focus, est, info_ok, items,
     items_error, thread, join_timed_out, job_status, opened, result,
     files_before, saved_from, content, max_menu_items, current_page, items_from, active_jobs, jobs, cls_page, cls_type >>

\* records a previous run left in the files
PrevStore ==
  [ url |-> "u0", postal_code |-> "75001", name |-> <<"Chez", "Shop">>,
    establishment_type |-> "store",
    products |-> <<StoreProduct("Fresh organic tomatoes from Provence")>>,
    products_count |-> 1 ]

PrevStoreU1 ==
  [ url |-> "u1", postal_code |-> "75001", name |-> <<"Paul", "Market">>,
    establishment_type |-> "store",
    products |-> <<StoreProduct("Fresh organic tomatoes from Provence")>>,
    products_count |-> 1 ]

PrevRestaurant ==
  [ url |-> "r0", postal_code |-> "75001", name |-> <<"Chez", "Ana">>,
    establishment_type |-> "restaurant",
    menu_items |-> <<MenuItem("Salade", "Tomates, olives et thon")>>,
    menu_items_count |-> 1 ]

NoRecord == [url |-> ""]

\* what a run can find on disk: nothing, the output of a previous run with
\* other establishments, a stores file that holds the store of u1
ExistingFiles ==
  { [restaurants |-> NoFile, stores |-> NoFile],
    [restaurants |-> FileOf(<<PrevRestaurant>>), stores |-> FileOf(<<PrevStore>>)],
    [restaurants |-> NoFile, stores |-> FileOf(<<PrevStoreU1>>)] }

NoResult == [returned |-> FALSE]

\* all lists of at most n cards
ListingsUpTo(n) == UNION { [1..k -> Cards] : k \in 0..n }

RunInit ==
  /\ listing \in ListingsUpTo(1)
  /\ \E before \in ExistingFiles :
       /\ restaurants_file = before.restaurants
       /\ stores_file = before.stores
  /\ max_restaurants \in 0..MaxCap
  /\ scraped_urls = {}
  /\ scraped_store_names = {}
  /\ establishments_data = <<>>
  /\ pc = "start"
  /\ page_count = 0
  /\ total_scraped = 0
  /\ remaining = 0
  /\ index = 0
  /\ successful_count = 0
  /\ handles = <<"listing">>
  /\ focus = "listing"
  /\ est = NoRecord
  /\ info_ok = FALSE
  /\ items = <<>>
  /\ items_error = FALSE
  /\ thread = "idle"
  /\ join_timed_out = FALSE
  /\ job_status = "running"
  /\ opened = <<>>
  /\ result = NoResult
  /\ files_before = [restaurants |-> restaurants_file, stores |-> stores_file]
  /\ saved_from = <<>>
  /\ content = NoContent
  /\ max_menu_items = NoLimit
  /\ current_page = ListingPage
  /\ items_from = NoPageRead
  /\ active_jobs = {}
  /\ jobs = NoJobs

Init ==
  /\ RunInit
  /\ cls_page = NoPage
  /\ cls_type = "none"

(***************************************************************************)
(* The dedup ledger                                                        *)
(***************************************************************************)
\* main.py 408, 417
UrlsOf(file) ==
  { file.data[i].url : i \in { j \in 1..Len(file.data) : HasKey(file.data[j], "url") } }

\* main.py 419
StoreNamesOf(file) ==
  { normalize_store_name(file.data[i].name) :
      i \in { j \in 1..Len(file.data) :
                LET n == Get(file.data[j], "name", <<>>)
                IN  n # <<>> /\ n # NA } }

\* a ledger that never finds the URL
UrlAlreadyScraped_Never(url) == FALSE

\* main.py 1281
UrlAlreadyScraped(url) == url \in scraped_urls

\* a ledger test that compares the name as it is displayed
is_store_already_scraped_Exact(establishment_name, establishment_type) ==
  IF establishment_type # "store" THEN FALSE
  ELSE IF establishment_name = <<>> \/ establishment_name = NA THEN FALSE
  ELSE establishment_name \in scraped_store_names

\* main.py 456-470
is_store_already_scraped(establishment_name, establishment_type) ==
  IF establishment_type # "store" THEN FALSE
  ELSE IF establishment_name = <<>> \/ establishment_name = NA THEN FALSE
  ELSE normalize_store_name(establishment_name) \in scraped_store_names

\* the cap test off by one
CapReached_OffByOne(max, count) == max # 0 /\ count > max

\* main.py 1272 and 1475, 1505: "max and count >= max"
CapReached(max, count) == max # 0 /\ count >= max

(***************************************************************************)
(* scrape_page: start of the run and top of the traversal loop             *)
(***************************************************************************)
\* main.py 1465-1470, with load_existing_urls (400-429)
ScrapePageStart ==
  /\ pc = "start"
  /\ establishments_data' = <<>>
  /\ scraped_urls' =
       scraped_urls \cup UrlsOf(restaurants_file) \cup UrlsOf(stores_file)
  /\ scraped_store_names' = scraped_store_names \cup StoreNamesOf(stores_file)
  /\ page_count' = 1
  /\ total_scraped' = 0
  /\ pc' = "loop_top"
  /\ UNCHANGED << listing, restaurants_file, stores_file, max_restaurants,
                  remaining, index, successful_count, handles, focus, est,
                  info_ok, items, items_error, thread, join_timed_out,
                  job_status, opened, result, files_before, saved_from, content, max_menu_items, current_page, items_from, active_jobs, jobs, cls_page, cls_type >>

\* main.py 1472-1500: the cap test, the scrolling, the call of
\* get_establishment up to its enumeration of the cards (1258-1268)
LoopTop ==
  /\ pc = "loop_top"
  /\ IF CapReached(max_restaurants, total_scraped)
     THEN /\ pc' = "save"
          /\ UNCHANGED << remaining, index, successful_count >>
     ELSE /\ pc' = "card"
          /\ remaining' = IF max_restaurants # 0
                          THEN max_restaurants - total_scraped ELSE 0
          /\ index' = 1
          /\ successful_count' = 0
  /\ UNCHANGED << listing, restaurants_file, stores_file, max_restaurants,
                  scraped_urls, scraped_store_names, establishments_data,
                  page_count, total_scraped, handles, focus, est, info_ok,
                  items, items_error, thread, join_timed_out, job_status,
                  opened, result, files_before, saved_from, content, max_menu_items, current_page, items_from, active_jobs, jobs, cls_page, cls_type >>

(***************************************************************************)
(* get_establishment: one card                                             *)
(***************************************************************************)
\* the except branch of the card loop (main.py 1338-1347)
HandlerHandles ==
  IF Len(handles) > 1 THEN SelectSeq(handles, LAMBDA w : w # focus) ELSE handles

\* self.driver.close() followed by switch_to.window(window_handles[0])
\* (main.py 1311-1312, 1333-1334)
ClosedHandles == SelectSeq(handles, LAMBDA w : w # focus)

NoMoreCards ==
  index > Len(listing) \/ CapReached(remaining, successful_count)

\* the card is passed over before a tab is opened (main.py 1276-1295)
SkipsCard(card) ==
  \/ ~TruthyStr(card.href)
  \/ UrlAlreadyScraped(card.href)
  \/ (card.name # <<>> /\ is_store_already_scraped(card.name, "store"))

\* get_establishment returns (main.py 1349-1350) and scrape_page adds the
\* count and tests the cap (1501-1507)
PageEnd ==
  /\ pc = "card"
  /\ NoMoreCards
  /\ total_scraped' = total_scraped + successful_count
  /\ pc' = IF CapReached(max_restaurants, total_scraped + successful_count)
           THEN "save" ELSE "show_more"
  /\ UNCHANGED << listing, restaurants_file, stores_file, max_restaurants,
                  scraped_urls, scraped_store_names, establishments_data,
                  page_count, remaining, index, successful_count, handles,
                  focus, est, info_ok, items, items_error, thread,
                  join_timed_out, job_status, opened, result, files_before, saved_from, content, max_menu_items, current_page, items_from, active_jobs, jobs, cls_page, cls_type >>

\* the driver is not on the listing window: reading the card raises
CardStale ==
  /\ pc = "card"
  /\ ~NoMoreCards
  /\ focus # "listing"
  /\ handles' = HandlerHandles
  /\ focus' = HandlerHandles[1]
  /\ index' = index + 1
  /\ current_page' = IF focus' = "listing" THEN ListingPage
                   ELSE IF focus' = focus THEN current_page
                   ELSE listing[index].href
  /\ UNCHANGED << listing, restaurants_file, stores_file, max_restaurants,
                  scraped_urls, scraped_store_names, establishments_data, pc,
                  page_count, total_scraped, remaining, successful_count, est,
                  info_ok, items, items_error, thread, join_timed_out,
                  job_status, opened, result, files_before, saved_from, content, max_menu_items, items_from, active_jobs, jobs, cls_page, cls_type >>

CardSkipped ==
  /\ pc = "card"
  /\ ~NoMoreCards
  /\ focus = "listing"
  /\ SkipsCard(listing[index])
  /\ index' = index + 1
  /\ UNCHANGED << listing, restaurants_file, stores_file, max_restaurants,
                  scraped_urls, scraped_store_names, establishments_data, pc,
                  page_count, total_scraped, remaining, successful_count,
                  handles, focus, est, info_ok, items, items_error, thread,
                  join_timed_out, job_status, opened, result, files_before, saved_from, content, max_menu_items, current_page, items_from, active_jobs, jobs, cls_page, cls_type >>

\* window.open(url)  (main.py 1298)
OpenTab ==
  /\ pc = "card"
  /\ ~NoMoreCards
  /\ focus = "listing"
  /\ ~SkipsCard(listing[index])
  /\ handles' = Append(handles, "tab")
  /\ opened' = Append(opened, listing[index].href)
  /\ pc' = "switch"
  /\ UNCHANGED << listing, restaurants_file, stores_file, max_restaurants,
                  scraped_urls, scraped_store_names, establishments_data,
                  page_count, total_scraped, remaining, index,
                  successful_count, focus, est, info_ok, items, items_error,
                  thread, join_timed_out, job_status, result, files_before, saved_from, content, max_menu_items, current_page, items_from, active_jobs, jobs, cls_page, cls_type >>

\* window.open raises: the except branch, no window was opened
OpenTabFails ==
  /\ pc = "card"
  /\ ~NoMoreCards
  /\ focus = "listing"
  /\ ~SkipsCard(listing[index])
  /\ handles' = HandlerHandles
  /\ focus' = HandlerHandles[1]
  /\ index' = index + 1
  /\ current_page' = IF focus' = "listing" THEN ListingPage
                   ELSE IF focus' = focus THEN current_page
                   ELSE listing[index].href
  /\ UNCHANGED << listing, restaurants_file, stores_file, max_restaurants,
                  scraped_urls, scraped_store_names, establishments_data, pc,
                  page_count, total_scraped, remaining, successful_count, est,
                  info_ok, items, items_error, thread, join_timed_out,
                  job_status, opened, result, files_before, saved_from, content, max_menu_items, items_from, active_jobs, jobs, cls_page, cls_type >>

\* switch_to.window(window_handles[-1])  (main.py 1299)
SwitchToTab ==
  /\ pc = "switch"
  /\ focus' = handles[Len(handles)]
  /\ pc' = "get_info"
  /\ current_page' = IF focus' = "listing" THEN ListingPage
                   ELSE IF focus' = focus THEN current_page
                   ELSE listing[index].href
  /\ UNCHANGED << listing, restaurants_file, stores_file, max_restaurants,
                  scraped_urls, scraped_store_names, establishments_data,
                  page_count, total_scraped, remaining, index,
                  successful_count, handles, est, info_ok, items, items_error,
                  thread, join_timed_out, job_status, opened, result,
                  files_before, saved_from, content, max_menu_items, items_from, active_jobs, jobs, cls_page, cls_type >>

\* the switch raises after the tab was opened: the except branch closes
\* the window the driver is on
SwitchFails ==
  /\ pc = "switch"
  /\ handles' = HandlerHandles
  /\ focus' = HandlerHandles[1]
  /\ index' = index + 1
  /\ pc' = "card"
  /\ current_page' = IF focus' = "listing" THEN ListingPage
                   ELSE IF focus' = focus THEN current_page
                   ELSE listing[index].href
  /\ UNCHANGED << listing, restaurants_file, stores_file, max_restaurants,
                  scraped_urls, scraped_store_names, establishments_data,
                  page_count, total_scraped, remaining, successful_count, est,
                  info_ok, items, items_error, thread, join_timed_out,
                  job_status, opened, result, files_before, saved_from, content, max_menu_items, items_from, active_jobs, jobs, cls_page, cls_type >>

(***************************************************************************)
(* get_info: the visit of one establishment, with its extraction thread    *)
(***************************************************************************)
\* the key of the item list and of its count (main.py 1172-1177)
ItemsKey(establishment_type) ==
  IF establishment_type = "store" THEN "products" ELSE "menu_items"

CountKey(establishment_type) ==
  IF establishment_type = "store" THEN "products_count" ELSE "menu_items_count"

\* main.py 1055-1118: the page is loaded, name and type are read, the
\* thread is started
GetInfoStart ==
  /\ pc = "get_info"
  /\ LET url == listing[index].href
     IN  est' = [ url |-> url, postal_code |-> "75001", name |-> PageName(url),
                  establishment_type |-> PageType(url) ]
  /\ items' = <<>>
  /\ items_error' = FALSE
  /\ join_timed_out' = FALSE
  /\ thread' = IF max_menu_items = NoLimit \/ max_menu_items > 0
               THEN "running" ELSE "idle"
  /\ current_page' = listing[index].href
  /\ items_from' = NoPageRead
  /\ pc' = "gi_info"
  /\ UNCHANGED << listing, restaurants_file, stores_file, max_restaurants,
                  scraped_urls, scraped_store_names, establishments_data,
                  page_count, total_scraped, remaining, index,
                  successful_count, handles, focus, info_ok, job_status,
                  opened, result, files_before, saved_from, content, max_menu_items, active_jobs, jobs, cls_page, cls_type >>

\* a failure of get_info that ends the run on the spot
GetInfoFails_Aborts ==
  /\ pc = "get_info"
  /\ info_ok' = FALSE
  /\ pc' = "done"
  /\ UNCHANGED << listing, restaurants_file, stores_file, max_restaurants,
                  scraped_urls, scraped_store_names, establishments_data,
                  page_count, total_scraped, remaining, index,
                  successful_count, handles, focus, est, items, items_error,
                  thread, join_timed_out, job_status, opened, result,
                  files_before, saved_from, content, max_menu_items, current_page, items_from, active_jobs, jobs, cls_page, cls_type >>

\* main.py 1183-1185: an exception before the thread is started, None
GetInfoFails ==
  /\ pc = "get_info"
  /\ info_ok' = FALSE
  /\ pc' = "got_info"
  /\ UNCHANGED << listing, restaurants_file, stores_file, max_restaurants,
                  scraped_urls, scraped_store_names, establishments_data,
                  page_count, total_scraped, remaining, index,
                  successful_count, handles, focus, est, items, items_error,
                  thread, join_timed_out, job_status, opened, result,
                  files_before, saved_from, content, max_menu_items, current_page, items_from, active_jobs, jobs, cls_page, cls_type >>

\* what the information page shows to an extraction (SpecExtract)
InfoContent(page) ==
  IF page.kind = "restaurant"
  THEN [ kind |-> "restaurant", scroll_raises |-> FALSE,
         source_raises |-> FALSE, pattern_matches |-> << <<>>, <<>>, <<>>, <<>> >>,
         dom_raises |-> FALSE, elements |-> <<>>, body_raises |-> FALSE,
         lines |-> <<"Croque", "Fresh organic tomatoes from Provence">> ]
  ELSE IF page.kind = "store"
  THEN [ kind |-> "store", load_raises |-> FALSE, specific_spans |-> <<>>,
         rich_spans |-> <<>>,
         all_spans |-> <<"Fresh organic tomatoes from Provence">>,
         navigation_raises |-> FALSE, carousels |-> <<>> ]
  ELSE page

\* main.py 1120-1158: the main path looks for the information link and, if
\* it finds one, loads the information page in the same window
NavigateToInfo ==
  /\ pc = "gi_info"
  /\ \E info_link_found \in BOOLEAN :
       IF info_link_found
       THEN /\ current_page' = InfoPage(est.url)
            /\ content' = InfoContent(content)
       ELSE UNCHANGED << current_page, content >>
  /\ pc' = IF thread = "idle" THEN "gi_items" ELSE "gi_join"
  /\ UNCHANGED << listing, restaurants_file, stores_file, max_restaurants,
                  scraped_urls, scraped_store_names, establishments_data,
                  page_count, total_scraped, remaining, index,
                  successful_count, handles, focus, est, info_ok, items,
                  items_error, thread, join_timed_out, job_status, opened,
                  result, files_before, saved_from, max_menu_items,
                  items_from, active_jobs, jobs, cls_page, cls_type >>

\* scrape_items_thread stores the list it extracted (main.py 1102-1107)
ThreadCompletes ==
  /\ thread = "running"
  /\ items' = PageItems(current_page)
  /\ items_from' = current_page
  /\ thread' = "done"
  /\ UNCHANGED << listing, restaurants_file, stores_file, max_restaurants,
                  scraped_urls, scraped_store_names, establishments_data, pc,
                  page_count, total_scraped, remaining, index,
                  successful_count, handles, focus, est, info_ok, items_error,
                  join_timed_out, job_status, opened, result, files_before, saved_from, content, max_menu_items, current_page, active_jobs, jobs, cls_page, cls_type >>

\* scrape_items_thread catches an exception (main.py 1111-1113)
ThreadRaises ==
  /\ thread = "running"
  /\ items_error' = TRUE
  /\ thread' = "done"
  /\ UNCHANGED << listing, restaurants_file, stores_file, max_restaurants,
                  scraped_urls, scraped_store_names, establishments_data, pc,
                  page_count, total_scraped, remaining, index,
                  successful_count, handles, focus, est, info_ok, items,
                  join_timed_out, job_status, opened, result, files_before, saved_from, content, max_menu_items, current_page, items_from, active_jobs, jobs, cls_page, cls_type >>

\* items_thread.join(timeout=60) returns and is_alive() is read
\* (main.py 1162-1169): the thread has ended, or the 60 seconds have passed
\* and it is still alive
JoinReturns ==
  /\ pc = "gi_join"
  /\ join_timed_out' = (thread = "running")
  /\ IF thread = "running"
     THEN pc' = "gi_clear" /\ UNCHANGED items
     ELSE /\ pc' = "gi_items"
          /\ items' = IF items_error THEN <<>> ELSE items
  /\ UNCHANGED << listing, restaurants_file, stores_file, max_restaurants,
                  scraped_urls, scraped_store_names, establishments_data,
                  page_count, total_scraped, remaining, index,
                  successful_count, handles, focus, est, info_ok, items_error,
                  thread, job_status, opened, result, files_before, saved_from, content, max_menu_items, current_page, items_from, active_jobs, jobs, cls_page, cls_type >>

\* main.py 1166: items = [] after the timeout
ClearItems ==
  /\ pc = "gi_clear"
  /\ items' = <<>>
  /\ pc' = "gi_items"
  /\ UNCHANGED << listing, restaurants_file, stores_file, max_restaurants,
                  scraped_urls, scraped_store_names, establishments_data,
                  page_count, total_scraped, remaining, index,
                  successful_count, handles, focus, est, info_ok, items_error,
                  thread, join_timed_out, job_status, opened, result,
                  files_before, saved_from, content, max_menu_items, current_page, items_from, active_jobs, jobs, cls_page, cls_type >>

\* main.py 1173 / 1176: the item list is read from the cell and stored
SetItems ==
  /\ pc = "gi_items"
  /\ est' = Put(est, ItemsKey(est.establishment_type), items)
  /\ pc' = "gi_count"
  /\ UNCHANGED << listing, restaurants_file, stores_file, max_restaurants,
                  scraped_urls, scraped_store_names, establishments_data,
                  page_count, total_scraped, remaining, index,
                  successful_count, handles, focus, info_ok, items,
                  items_error, thread, join_timed_out, job_status, opened,
                  result, files_before, saved_from, content, max_menu_items, current_page, items_from, active_jobs, jobs, cls_page, cls_type >>

\* main.py 1174 / 1177: the cell is read again for the count; get_info
\* returns the record (1181)
SetCount ==
  /\ pc = "gi_count"
  /\ est' = Put(est, CountKey(est.establishment_type), Len(items))
  /\ info_ok' = TRUE
  /\ pc' = "got_info"
  /\ UNCHANGED << listing, restaurants_file, stores_file, max_restaurants,
                  scraped_urls, scraped_store_names, establishments_data,
                  page_count, total_scraped, remaining, index,
                  successful_count, handles, focus, items, items_error,
                  thread, join_timed_out, job_status, opened, result,
                  files_before, saved_from, content, max_menu_items, current_page, items_from, active_jobs, jobs, cls_page, cls_type >>

(***************************************************************************)
(* get_establishment: what is done with the result of get_info             *)
(***************************************************************************)
\* a check after extraction that rejects nothing
RejectedAfterExtraction_Never(establishment) == FALSE

\* main.py 1308: the check after extraction
RejectedAfterExtraction(establishment) ==
  /\ establishment.establishment_type = "store"
  /\ is_store_already_scraped(establishment.name, establishment.establishment_type)

\* main.py 1303-1336: the record is appended and the ledger updated, or
\* the record is dropped; the tab is closed and the next card is taken
HandleInfo ==
  /\ pc = "got_info"
  /\ IF info_ok /\ ~RejectedAfterExtraction(est)
     THEN /\ establishments_data' = Append(establishments_data, est)
          /\ successful_count' = successful_count + 1
          /\ scraped_urls' = scraped_urls \cup {est.url}
          /\ scraped_store_names' =
               IF est.establishment_type = "store" /\ est.name # NA
               THEN scraped_store_names \cup {normalize_store_name(est.name)}
               ELSE scraped_store_names
     ELSE UNCHANGED << establishments_data, successful_count, scraped_urls,
                       scraped_store_names >>
  /\ handles' = ClosedHandles
  /\ focus' = ClosedHandles[1]
  /\ index' = index + 1
  /\ est' = NoRecord
  /\ info_ok' = FALSE
  /\ items' = <<>>
  /\ items_error' = FALSE
  /\ thread' = "idle"
  /\ join_timed_out' = FALSE
  /\ pc' = "card"
  /\ current_page' = IF focus' = "listing" THEN ListingPage
                   ELSE IF focus' = focus THEN current_page
                   ELSE listing[index].href
  /\ items_from' = NoPageRead
  /\ UNCHANGED << listing, restaurants_file, stores_file, max_restaurants,
                  page_count, total_scraped, remaining, job_status, opened,
                  result, files_before, saved_from, content, max_menu_items, active_jobs, jobs, cls_page, cls_type >>

(***************************************************************************)
(* scrape_page: the load-more control (main.py 1509-1540)                  *)
(***************************************************************************)
\* no control, a control that is hidden or disabled, a click that fails
ShowMoreUnavailable ==
  /\ pc = "show_more"
  /\ pc' = "save"
  /\ UNCHANGED << listing, restaurants_file, stores_file, max_restaurants,
                  scraped_urls, scraped_store_names, establishments_data,
                  page_count, total_scraped, remaining, index,
                  successful_count, handles, focus, est, info_ok, items,
                  items_error, thread, join_timed_out, job_status, opened,
                  result, files_before, saved_from, content, max_menu_items, current_page, items_from, active_jobs, jobs, cls_page, cls_type >>

\* robust_click succeeds: the listing grows by the cards the site reveals,
\* possibly none
ShowMoreClicked ==
  /\ pc = "show_more"
  /\ focus = "listing"
  /\ page_count < MaxPages
  /\ \E more \in ListingsUpTo(1) :
       /\ Len(listing) + Len(more) <= MaxCards
       /\ listing' = listing \o more
  /\ page_count' = page_count + 1
  /\ pc' = "loop_top"
  /\ UNCHANGED << restaurants_file, stores_file, max_restaurants,
                  scraped_urls, scraped_store_names, establishments_data,
                  total_scraped, remaining, index, successful_count, handles,
                  focus, est, info_ok, items, items_error, thread,
                  join_timed_out, job_status, opened, result, files_before, saved_from, content, max_menu_items, current_page, items_from, active_jobs, jobs, cls_page, cls_type >>

(***************************************************************************)
(* categorize_and_save_establishments with post_process_scraped_files,     *)
(* and the return of scrape_page (main.py 1375-1454, 1544-1558)            *)
(***************************************************************************)
CategorizeAndSave ==
  /\ pc = "save"
  /\ \E restaurants_fail, stores_fail \in BOOLEAN :
       LET restaurants == RestaurantsOf(establishments_data)
           stores      == StoresOf(establishments_data)
       IN  /\ saved_from' = establishments_data
           /\ establishments_data' = Categorized(establishments_data)
           /\ restaurants_file' =
                PostProcessRestaurants(
                  SaveList(restaurants_file, restaurants, restaurants_fail))
           /\ stores_file' =
                PostProcessStores(SaveList(stores_file, stores, stores_fail))
           /\ result' = [ returned |-> TRUE,
                          pages_processed |-> page_count,
                          establishments_scraped |-> total_scraped,
                          restaurants_scraped |-> Len(restaurants),
                          stores_scraped |-> Len(stores) ]
  /\ pc' = "done"
  /\ UNCHANGED << listing, max_restaurants, scraped_urls,
                  scraped_store_names, page_count, total_scraped, remaining,
                  index, successful_count, handles, focus, est, info_ok,
                  items, items_error, thread, join_timed_out, job_status,
                  opened, files_before, content, max_menu_items, current_page, items_from, active_jobs, jobs, cls_page,
                  cls_type >>

\* main.py 1452-1454: a statement of the try body raises before the lists
\* are written; the handler returns zero counts and scrape_page returns
\* them next to its own total (1553-1558)
CategorizeAndSaveFails ==
  /\ pc = "save"
  /\ saved_from' = establishments_data
  /\ result' = [ returned |-> TRUE,
                 pages_processed |-> page_count,
                 establishments_scraped |-> total_scraped,
                 restaurants_scraped |-> 0,
                 stores_scraped |-> 0 ]
  /\ pc' = "done"
  /\ UNCHANGED << listing, restaurants_file, stores_file, max_restaurants,
                  scraped_urls, scraped_store_names, establishments_data,
                  page_count, total_scraped, remaining, index,
                  successful_count, handles, focus, est, info_ok, items,
                  items_error, thread, join_timed_out, job_status, opened,
                  files_before, content, max_menu_items, current_page,
                  items_from, active_jobs, jobs, cls_page, cls_type >>

(***************************************************************************)
(* The job (app.py)                                                        *)
(***************************************************************************)
\* stop_job, app.py 2562-2575
StopJob ==
  /\ job_status = "running"
  /\ pc # "done"
  /\ job_status' = "stopped"
  /\ UNCHANGED << listing, restaurants_file, stores_file, max_restaurants,
                  scraped_urls, scraped_store_names, establishments_data, pc,
                  page_count, total_scraped, remaining, index,
                  successful_count, handles, focus, est, info_ok, items,
                  items_error, thread, join_timed_out, opened, result,
                  files_before, saved_from, content, max_menu_items, current_page, items_from, active_jobs, jobs, cls_page, cls_type >>

\* run_scraping_job after perform_full_scrape returned, app.py 2242-2243
JobCompletes ==
  /\ pc = "done"
  /\ job_status \in {"running", "stopped"}
  /\ job_status' = "completed"
  /\ UNCHANGED << listing, restaurants_file, stores_file, max_restaurants,
                  scraped_urls, scraped_store_names, establishments_data, pc,
                  page_count, total_scraped, remaining, index,
                  successful_count, handles, focus, est, info_ok, items,
                  items_error, thread, join_timed_out, opened, result,
                  files_before, saved_from, content, max_menu_items, current_page, items_from, active_jobs, jobs, cls_page, cls_type >>

Next ==
  \/ ScrapePageStart
  \/ LoopTop
  \/ PageEnd
  \/ CardStale
  \/ CardSkipped
  \/ OpenTab
  \/ OpenTabFails
  \/ SwitchToTab
  \/ SwitchFails
  \/ GetInfoStart
  \/ GetInfoFails
  \/ NavigateToInfo
  \/ ThreadCompletes
  \/ ThreadRaises
  \/ JoinReturns
  \/ ClearItems
  \/ SetItems
  \/ SetCount
  \/ HandleInfo
  \/ ShowMoreUnavailable
  \/ ShowMoreClicked
  \/ CategorizeAndSave
  \/ CategorizeAndSaveFails
  \/ StopJob
  \/ JobCompletes

Spec == Init /\ [][Next]_vars

(***************************************************************************)
(* Properties of the run                                                   *)
(***************************************************************************)
UrlsIn(data) == { data[i].url : i \in 1..Len(data) }

DistinctUrls(data) ==
  \A i, j \in 1..Len(data) : data[i].url = data[j].url => i = j

\* a tab is open on an establishment
Visiting ==
  pc \in {"switch", "get_info", "gi_info", "gi_join", "gi_clear", "gi_items",
          "gi_count", "got_info"}

\* C1: within one run, a URL that was accepted is never opened again and
\* neither establishments_data nor the files the run wrote hold two
\* records with the same url.
C1_OneRecordPerUrl ==
  /\ DistinctUrls(establishments_data)
  /\ pc # "start" => UrlsIn(establishments_data) \subseteq scraped_urls
  /\ Visiting => opened[Len(opened)] \notin UrlsIn(establishments_data)
  /\ pc = "done" => DistinctUrls(restaurants_file.data \o stores_file.data)

\* the listing showed an accepted URL a second time and passed it over
C1_Witness ==
  /\ pc = "card"
  /\ \E i, j \in 1..Len(listing) :
       /\ i < j /\ j < index
       /\ listing[i].href = listing[j].href
       /\ listing[i].href \in UrlsIn(establishments_data)

\* C2: after the save, every record that was in a file before the run is
\* still in that file.
C2_ExistingRecordsKept ==
  pc = "done" =>
    /\ UrlsIn(files_before.restaurants.data) \subseteq UrlsIn(restaurants_file.data)
    /\ UrlsIn(files_before.stores.data) \subseteq UrlsIn(stores_file.data)

\* C3: a page that yields no newly accepted establishment ends the
\* traversal loop: no further iteration is started after it.
C3_StalledPageEndsLoop ==
  [][(pc = "show_more" /\ successful_count = 0) => pc' # "loop_top"]_vars

\* C4: once the job is flagged stopped, no further establishment is opened.
C4_NoVisitAfterStop ==
  [][job_status = "stopped" => opened' = opened]_vars

\* C5: when the thread was still alive at the return of the join, the
\* record get_info returns carries an empty item list and the count 0.
C5_TimeoutGivesEmptyItems ==
  (pc = "got_info" /\ info_ok /\ join_timed_out) =>
    /\ est[ItemsKey(est.establishment_type)] = <<>>
    /\ est[CountKey(est.establishment_type)] = 0

\* C6: with a cap, establishments_data never holds more records than the
\* cap, no tab is open on an establishment once the cap is reached, and
\* the returned establishments_scraped is at most the cap.
C6_CapRespected ==
  max_restaurants > 0 =>
    /\ Len(establishments_data) <= max_restaurants
    /\ Visiting => Len(establishments_data) < max_restaurants
    /\ total_scraped + (IF pc \in {"card", "switch"} \/ Visiting
                        THEN successful_count ELSE 0) <= max_restaurants
    /\ result.returned => result.establishments_scraped <= max_restaurants

\* the cap stopped the run in front of a card it would have opened
C6_Witness ==
  /\ max_restaurants > 0
  /\ pc = "card"
  /\ Len(establishments_data) = max_restaurants
  /\ index <= Len(listing)
  /\ focus = "listing"
  /\ ~SkipsCard(listing[index])

CountMatches(establishment) ==
  /\ HasKey(establishment, "products") =>
       /\ HasKey(establishment, "products_count")
       /\ establishment.products_count = Len(establishment.products)
  /\ HasKey(establishment, "menu_items") =>
       /\ HasKey(establishment, "menu_items_count")
       /\ establishment.menu_items_count = Len(establishment.menu_items)

AllCountsMatch(data) == \A i \in 1..Len(data) : CountMatches(data[i])

\* C7: in every record, where it is observable (returned by get_info, in
\* establishments_data, in the files), the count equals the length of the
\* item list.
C7_CountIsLength ==
  /\ (pc = "got_info" /\ info_ok) => CountMatches(est)
  /\ AllCountsMatch(establishments_data)
  /\ AllCountsMatch(restaurants_file.data)
  /\ AllCountsMatch(stores_file.data)

(***************************************************************************)
(* The classifier on its own: detect_establishment_type applied to a page  *)
(***************************************************************************)
\* no run is going on
NoRun ==
  /\ listing = <<>>
  /\ restaurants_file = NoFile
  /\ stores_file = NoFile
  /\ max_restaurants = 0
  /\ scraped_urls = {}
  /\ scraped_store_names = {}
  /\ establishments_data = <<>>
  /\ pc = "idle"
  /\ page_count = 0
  /\ total_scraped = 0
  /\ remaining = 0
  /\ index = 0
  /\ successful_count = 0
  /\ handles = <<"listing">>
  /\ focus = "listing"
  /\ est = NoRecord
  /\ info_ok = FALSE
  /\ items = <<>>
  /\ items_error = FALSE
  /\ thread = "idle"
  /\ join_timed_out = FALSE
  /\ job_status = "running"
  /\ opened = <<>>
  /\ result = NoResult
  /\ files_before = [restaurants |-> NoFile, stores |-> NoFile]
  /\ saved_from = <<>>
  /\ content = NoContent
  /\ max_menu_items = NoLimit
  /\ current_page = ListingPage
  /\ items_from = NoPageRead
  /\ active_jobs = {}
  /\ jobs = NoJobs

runVars ==
  << listing, restaurants_file, stores_file, max_restaurants, scraped_urls,
     scraped_store_names, establishments_data, pc, page_count, total_scraped,
     remaining, index, successful_count, handles, focus, est, info_ok, items,
     items_error, thread, join_timed_out, job_status, opened, result,
     files_before, saved_from, content, max_menu_items, current_page, items_from, active_jobs, jobs >>

InitClassify ==
  /\ NoRun
  /\ cls_page \in Pages
  /\ cls_type = "none"

\* main.py 1090: establishment_type = self.detect_establishment_type(url)
Classify ==
  /\ cls_type = "none"
  /\ cls_type' = detect_establishment_type(cls_page)
  /\ UNCHANGED << runVars, cls_page >>

NextClassify == Classify

SpecClassify == InitClassify /\ [][NextClassify]_vars

StrongMatchCount(page) ==
  Cardinality({ keyword \in strong_grocery_keywords : keyword \in page.source_words })

\* nothing the classifier manages to read says store
NoStoreSignal(page) ==
  /\ page.url_words \cap definite_store_indicators = {}
  /\ page.title_raises \/ page.title_words \cap grocery_titles = {}
  /\ page.carousel_raises \/ page.carousel_count < 5
  /\ page.source_raises_second \/ StrongMatchCount(page) < 2

\* C9: a page with no chain keyword in the URL, no grocery keyword in the
\* title, fewer than 5 carousel controls and fewer than 2 strong keyword
\* hits is classified restaurant; a read that fails counts as no match
\* and the classifier always answers store or restaurant.
C9_ClassifierConservative ==
  cls_type # "none" =>
    /\ cls_type \in {"store", "restaurant"}
    /\ NoStoreSignal(cls_page) => cls_type = "restaurant"

\* just under the thresholds, and a title that holds a keyword but cannot
\* be read
C9_Witness ==
  /\ cls_type = "restaurant"
  /\ cls_page.carousel_count = 4
  /\ ~cls_page.carousel_raises
  /\ ~cls_page.source_raises_second
  /\ StrongMatchCount(cls_page) = 1
  /\ cls_page.title_raises
  /\ "courses" \in cls_page.title_words


(***************************************************************************)
(* categorize_and_save_establishments on the records of a run whose        *)
(* extraction returned items of every shape: with and without a title,     *)
(* with and without a description, "N/A" standing for a missing value.     *)
(***************************************************************************)
MaxFill == 9    \* repetitions of one item in an extracted list

\* the record get_info returns (main.py 1061-1091, 1171-1177)
InfoRecord(url, name, establishment_type, extracted) ==
  Put(Put([ url |-> url, postal_code |-> "75001", name |-> name,
            establishment_type |-> establishment_type ],
          ItemsKey(establishment_type), extracted),
      CountKey(establishment_type), Len(extracted))

\* the items a restaurant record can hold when it comes to the save step:
\* titled items as clean_restaurant_items emits them (menu.py 599-603), and
\* the untitled items the test of main.py 1392-1396 looks for
ItemKinds ==
  { MenuItem("", "Tomates, olives et thon"),
    MenuItem("", "Fresh organic tomatoes from Provence"),
    MenuItem("Salade", "Tomates, olives et thon"),
    MenuItem("Croque", "N/A"),
    MenuItem("N/A", "Tomates, olives et thon"),
    MenuItem("", "") }

Repeat(item, n) == [i \in 1..n |-> item]

OptionalItem == {<<>>} \cup { <<item>> : item \in ItemKinds }

ExtractedLists ==
  { first \o Repeat(item, n) \o last :
      first \in OptionalItem, item \in ItemKinds, n \in 0..MaxFill,
      last \in OptionalItem }

\* the record whose items vary, and the records saved next to it
VariedRecords ==
  { InfoRecord("u3", PageName("u3"), "restaurant", extracted) :
      extracted \in ExtractedLists }

PlainRecords ==
  { InfoRecord("u1", PageName("u1"), "store", PageItems("u1")),
    InfoRecord("u2", <<"Chez", "Ana">>, "restaurant",
               <<MenuItem("Salade", "Tomates, olives et thon")>>) }

CollectedData ==
  { <<varied>> : varied \in VariedRecords }
    \cup { <<varied, plain>> : varied \in VariedRecords, plain \in PlainRecords }
    \cup { <<plain, varied>> : varied \in VariedRecords, plain \in PlainRecords }

InitRecat ==
  /\ listing = <<>>
  /\ restaurants_file = NoFile
  /\ stores_file = NoFile
  /\ max_restaurants = 0
  /\ scraped_urls = {}
  /\ scraped_store_names = {}
  /\ establishments_data \in CollectedData
  /\ pc = "save"
  /\ page_count = 1
  /\ total_scraped = Len(establishments_data)
  /\ remaining = 0
  /\ index = 0
  /\ successful_count = 0
  /\ handles = <<"listing">>
  /\ focus = "listing"
  /\ est = NoRecord
  /\ info_ok = FALSE
  /\ items = <<>>
  /\ items_error = FALSE
  /\ thread = "idle"
  /\ join_timed_out = FALSE
  /\ job_status = "running"
  /\ opened = <<>>
  /\ result = NoResult
  /\ files_before = [restaurants |-> NoFile, stores |-> NoFile]
  /\ saved_from = <<>>
  /\ content = NoContent
  /\ max_menu_items = NoLimit
  /\ current_page = ListingPage
  /\ items_from = NoPageRead
  /\ active_jobs = {}
  /\ jobs = NoJobs
  /\ cls_page = NoPage
  /\ cls_type = "none"

NextRecat == CategorizeAndSave

SpecRecat == InitRecat /\ [][NextRecat]_vars

\* the keys of a record agree with its type, and a store product holds a
\* description and nothing else
ShapeOk(establishment) ==
  /\ HasKey(establishment, "establishment_type")
  /\ establishment.establishment_type \in {"store", "restaurant"}
  /\ establishment.establishment_type = "store" =>
       /\ HasKey(establishment, "products")
       /\ HasKey(establishment, "products_count")
       /\ ~HasKey(establishment, "menu_items")
       /\ ~HasKey(establishment, "menu_items_count")
       /\ \A i \in 1..Len(establishment.products) :
            DOMAIN establishment.products[i] = {"description"}
  /\ establishment.establishment_type = "restaurant" =>
       /\ HasKey(establishment, "menu_items")
       /\ HasKey(establishment, "menu_items_count")
       /\ ~HasKey(establishment, "products")
       /\ ~HasKey(establishment, "products_count")

AllOfType(file, establishment_type) ==
  file.exists =>
    \A i \in 1..Len(file.data) :
      /\ ShapeOk(file.data[i])
      /\ file.data[i].establishment_type = establishment_type

\* C8: every record reachable from get_info or from the re-categorization
\* carries the item keys of its own type and none of the other type, store
\* products carry only a description, a record that changes type is
\* reshaped in the same step, the stores file holds store records only and
\* the restaurants file restaurant records only.
C8_TypeAgreesWithShape ==
  /\ \A i \in 1..Len(establishments_data) : ShapeOk(establishments_data[i])
  /\ AllOfType(stores_file, "store")
  /\ AllOfType(restaurants_file, "restaurant")

\* a record of ten items that came in as a restaurant is saved as a store,
\* next to a record that stayed a restaurant
C8_Witness ==
  /\ pc = "done"
  /\ stores_file.exists
  /\ restaurants_file.exists
  /\ \E i \in 1..Len(saved_from) :
       /\ saved_from[i].establishment_type = "restaurant"
       /\ Len(saved_from[i].menu_items) = 10
       /\ establishments_data[i].establishment_type = "store"
       /\ \E j \in 1..Len(stores_file.data) :
            stores_file.data[j].url = saved_from[i].url

\* an item has no title / has a description; "N/A" stands for a missing
\* value in the records of the scraper
WithoutTitle(item) == Get(item, "title", "") = ""

HadDescription(item) == Get(item, "description", "") \notin {"", "N/A"}

DescriptionOnly(item) == WithoutTitle(item) /\ HadDescription(item)

NinetyPercentDescriptionOnly(menu_items) ==
  /\ menu_items # <<>>
  /\ 10 * Len(SelectSeq(menu_items, DescriptionOnly)) >= 9 * Len(menu_items)

DescriptionsOf(menu_items) ==
  LET kept == SelectSeq(menu_items, HadDescription)
  IN  [i \in 1..Len(kept) |-> [description |-> kept[i].description]]

MaxFileLen == 3     \* records in a file
MaxProducts == 2    \* products of the store whose products vary

\* descriptions a stores file can hold
Descriptions ==
  { "Fresh organic tomatoes from Provence", "(4,80 EUR/kg)", "9 pcs * 23.5 g",
    "12,50 EUR / 3", "Pain bio", "Pain bios", "Tomates", " Lait entier ",
    "Text of 299 characters", "Text of 300 characters", "N/A", "",
    "4 x 500ml" }

ProductLists ==
  UNION { [1..n -> { StoreProduct(d) : d \in Descriptions }] : n \in 0..MaxProducts }

StoreRecord(url, name, products) ==
  InfoRecord(url, name, "store", products)

\* files of one store, with every list of products
VariedStoreFiles ==
  { <<StoreRecord("u1", PageName("u1"), products)>> : products \in ProductLists }

\* stores that share URLs: same URL under two names, with two product lists
SimpleStores ==
  { StoreRecord(url, name, products) :
      url \in {"u1", "u2"},
      name \in { <<"Paul", "Market">>, <<"Paul", "City">> },
      products \in { <<StoreProduct("Fresh organic tomatoes from Provence")>>,
                     <<StoreProduct("(4,80 EUR/kg)"), StoreProduct("Pain bios")>> } }

SimpleRestaurants ==
  { InfoRecord(url, name, "restaurant", <<MenuItem("Salade", description)>>) :
      url \in {"u3", "r0"}, name \in { <<"Paul">>, <<"Chez", "Ana">> },
      description \in { "Tomates, olives et thon", "N/A" } }

StoreFiles ==
  {NoFile}
    \cup { FileOf(data) : data \in VariedStoreFiles }
    \cup { FileOf(data) :
             data \in UNION { [1..n -> SimpleStores] : n \in 0..MaxFileLen } }

RestaurantFiles ==
  {NoFile}
    \cup { FileOf(data) :
             data \in UNION { [1..n -> SimpleRestaurants] : n \in 0..MaxFileLen } }

InitClean ==
  /\ listing = <<>>
  /\ \/ restaurants_file = NoFile /\ stores_file \in StoreFiles
     \/ restaurants_file \in RestaurantFiles /\ stores_file = NoFile
  /\ max_restaurants = 0
  /\ scraped_urls = {}
  /\ scraped_store_names = {}
  /\ establishments_data = <<>>
  /\ pc = "clean"
  /\ page_count = 0
  /\ total_scraped = 0
  /\ remaining = 0
  /\ index = 0
  /\ successful_count = 0
  /\ handles = <<"listing">>
  /\ focus = "listing"
  /\ est = NoRecord
  /\ info_ok = FALSE
  /\ items = <<>>
  /\ items_error = FALSE
  /\ thread = "idle"
  /\ join_timed_out = FALSE
  /\ job_status = "running"
  /\ opened = <<>>
  /\ result = NoResult
  /\ files_before = [restaurants |-> restaurants_file, stores |-> stores_file]
  /\ saved_from = <<>>
  /\ content = NoContent
  /\ max_menu_items = NoLimit
  /\ current_page = ListingPage
  /\ items_from = NoPageRead
  /\ active_jobs = {}
  /\ jobs = NoJobs
  /\ cls_page = NoPage
  /\ cls_type = "none"

\* post_process_scraped_files (main.py 1687-1726)
post_process_scraped_files ==
  /\ pc \in {"clean", "cleaned"}
  /\ restaurants_file' = PostProcessRestaurants(restaurants_file)
  /\ stores_file' = PostProcessStores(stores_file)
  /\ pc' = IF pc = "clean" THEN "cleaned" ELSE "cleaned_twice"
  /\ UNCHANGED << listing, max_restaurants, scraped_urls, scraped_store_names,
                  establishments_data, page_count, total_scraped, remaining,
                  index, successful_count, handles, focus, est, info_ok,
                  items, items_error, thread, join_timed_out, job_status,
                  opened, result, files_before, saved_from, content,
                  max_menu_items, current_page, items_from, active_jobs, jobs, cls_page, cls_type >>

NextClean == post_process_scraped_files

SpecClean == InitClean /\ [][NextClean]_vars


\* C11: running the post-processing of the stores file a second time
\* changes nothing: records, products and counts are those of the first
\* run.
C11_CleanIdempotent ==
  [][pc = "cleaned" => stores_file' = stores_file]_vars

\* both passes have run on a file where the first pass removed a record
\* and a product
C11_Witness ==
  /\ pc = "cleaned_twice"
  /\ files_before.stores.exists
  /\ Len(stores_file.data) < Len(files_before.stores.data)
  /\ \E i \in 1..Len(stores_file.data) :
       /\ stores_file.data[i].products_count = 1
       /\ \E j \in 1..Len(files_before.stores.data) :
            /\ files_before.stores.data[j].url = stores_file.data[i].url
            /\ files_before.stores.data[j].products_count = 2

\* positions of the records that are the first of their URL
FirstOfUrl(data) ==
  { i \in 1..Len(data) : \A j \in 1..(i - 1) : data[j].url # data[i].url }

\* the records at those positions, in their order
FirstWins(data) ==
  LET first == FirstOfUrl(data)
      Nth(k) == CHOOSE i \in first : Cardinality({ j \in first : j <= i }) = k
  IN  [k \in 1..Cardinality(first) |-> data[Nth(k)]]

WithoutProducts(store) == Pop(store, {"products", "products_count"})

ProductsOfFile(file) ==
  IF ~file.exists THEN {}
  ELSE UNION { { file.data[i].products[k] : k \in 1..Len(file.data[i].products) } :
                 i \in 1..Len(file.data) }

GoodDescription(d) ==
  /\ TextLen(Strip(d)) >= 8
  /\ TextHasLetter(Strip(d))
  /\ ~MatchesPricePattern(Strip(d))
  /\ ~OnlyDigitsAndSymbols(Strip(d))

\* C14: every product with a good description that a kept record had
\* before the cleaning is among its products afterwards, whatever the
\* length of the description from 8 characters on.
C14_GoodProductsSurvive ==
  (pc = "cleaned" /\ stores_file.exists) =>
    \A i \in 1..Len(files_before.stores.data) :
      i \in FirstOfUrl(files_before.stores.data) =>
        \A k \in 1..Len(files_before.stores.data[i].products) :
          LET product == files_before.stores.data[i].products[k]
          IN  GoodDescription(product.description)
                => product \in ProductsOfFile(stores_file)


\* every record of the list is in the file
AllWritten(list, file) ==
  /\ file.exists
  /\ \A i \in 1..Len(list) : list[i].url \in UrlsOf(file)

\* C15: when the run has returned, the counts of its result are counts of
\* records that are in the files (a write that failed is not reported as
\* saved records), and establishments_data still holds every record that
\* was collected.
C15_WriteFailureSurfaced ==
  pc = "done" =>
    /\ result.stores_scraped > 0 =>
         AllWritten(SelectSeq(establishments_data, IsStore), stores_file)
    /\ result.restaurants_scraped > 0 =>
         AllWritten(SelectSeq(establishments_data, IsRestaurant),
                    restaurants_file)
    /\ Len(establishments_data) = Len(saved_from)
    /\ \A i \in 1..Len(saved_from) :
         establishments_data[i].url = saved_from[i].url


(***************************************************************************)
(* The run as the interpreter executes it: a step that can be taken is     *)
(* taken sooner or later (scrape_page runs in one thread, join returns     *)
(* after at most 60 seconds).                                              *)
(***************************************************************************)
SpecFair == Spec /\ WF_vars(Next)

HandlingCards == pc = "card" \/ Visiting

C17_RestaurantsNotNameDeduplicated ==
  /\ (pc = "card" /\ ~NoMoreCards /\ focus = "listing") =>
       LET card == listing[index]
       IN  ( /\ TruthyStr(card.href)
             /\ card.href \notin scraped_urls
             /\ PageType(card.href) = "restaurant" )
           => ~SkipsCard(card)
  /\ (pc = "got_info" /\ info_ok /\ est.establishment_type = "restaurant") =>
       ~RejectedAfterExtraction(est)


\* the record is a store whose normalized name is already in the ledger
DuplicateStore(establishment) ==
  /\ establishment.establishment_type = "store"
  /\ establishment.name \notin {<<>>, NA}
  /\ normalize_store_name(establishment.name) \in scraped_store_names

\* get_info returned a record that is not a duplicate store
Accepting == pc = "got_info" /\ info_ok /\ ~DuplicateStore(est)

\* C19: while cards are handled, a step that is not the acceptance of a
\* record (a card skipped, a visit that failed, a store rejected after
\* extraction) leaves scraped_urls, scraped_store_names and
\* establishments_data as they were.
C19_LedgerChangesOnlyOnAcceptance ==
  [][ (HandlingCards /\ ~Accepting) =>
        UNCHANGED << scraped_urls, scraped_store_names, establishments_data >>
    ]_vars

\* u1 was accepted; u2, a store with the same normalized name, was visited
\* and left no trace in the ledger
C19_Witness ==
  /\ pc = "card"
  /\ opened = <<"u1", "u2">>
  /\ scraped_urls = {"u1"}
  /\ scraped_store_names = {<<"paul">>}
  /\ Len(establishments_data) = 1
  /\ index = 3


AllReadsSucceed(page) ==
  /\ ~page.title_raises
  /\ ~page.carousel_raises
  /\ ~page.source_raises_first
  /\ ~page.source_raises_second

\* the five rules, in order, the middle band asking for a strong keyword
FiveRules(page) ==
  IF page.url_words \cap definite_store_indicators # {} THEN "store"
  ELSE IF page.title_words \cap grocery_titles # {} THEN "store"
  ELSE IF \/ page.carousel_count >= 8
          \/ page.carousel_count \in 5..7 /\ StrongMatchCount(page) >= 1
       THEN "store"
  ELSE IF StrongMatchCount(page) >= 2 THEN "store"
  ELSE "restaurant"

\* C20 as stated: on every page whose reads succeed the classifier answers
\* what the five rules answer, the middle band of the carousel rule asking
\* for at least one strong grocery keyword.
C20_EqualsFiveRules ==
  (cls_type # "none" /\ AllReadsSucceed(cls_page)) =>
    cls_type = FiveRules(cls_page)

\* the five rules with the middle band asking for one of the three phrases
\* "produits frais", "epicerie", "courses en ligne", and a read that fails
\* counting as no match of its rule
FiveRulesWithContentTerms(page) ==
  IF page.url_words \cap definite_store_indicators # {} THEN "store"
  ELSE IF ~page.title_raises /\ page.title_words \cap grocery_titles # {}
       THEN "store"
  ELSE IF /\ ~page.carousel_raises
          /\ \/ page.carousel_count >= 8
             \/ /\ page.carousel_count \in 5..7
                /\ ~page.source_raises_first
                /\ page.source_words
                     \cap {"produits frais", "epicerie", "courses en ligne"} # {}
       THEN "store"
  ELSE IF ~page.source_raises_second /\ StrongMatchCount(page) >= 2
       THEN "store"
  ELSE "restaurant"

\* C20, amended: the classifier answers what the five rules answer when
\* the middle band (5..7 carousel controls) asks for one of the phrases
\* "produits frais", "epicerie", "courses en ligne" in the page content,
\* not for a strong grocery keyword, and a failed read is no match.
C20_EqualsFiveRulesWithContentTerms ==
  cls_type # "none" => cls_type = FiveRulesWithContentTerms(cls_page)

\* six carousel controls and the one word "epicerie", which is no strong
\* keyword: store
C20_Witness ==
  /\ cls_type = "store"
  /\ AllReadsSucceed(cls_page)
  /\ cls_page.carousel_count = 6
  /\ cls_page.source_words = {"epicerie"}
  /\ cls_page.url_words = {}
  /\ cls_page.title_words = {}


(***************************************************************************)
(* Item extraction.  What the extraction reads of an establishment page    *)
(* is given by the page content; texts are atoms with tabulated features.  *)
(***************************************************************************)
MaxItems == 2       \* largest max_menu_items
MaxMatches == 3     \* matches of a pattern
MaxElements == 4    \* elements a DOM selector finds
MaxLines == 4       \* lines of the body text
MaxSpans == 3       \* distinct span texts of a store page

\* "max_items and len(items) >= max_items" (menu.py 92, 201, 295; main.py 847)
LimitReached_Never(max_items, count) == FALSE

LimitReached(max_items, count) ==
  max_items # NoLimit /\ max_items # 0 /\ count >= max_items

\* clean_text_simple (menu.py 543-570) on the texts of the model
clean_text_simple(text) == IF text = "<b>Salade</b>" THEN "Salade" ELSE text

\* clean_text (main.py 1027-1050) on the texts of the model
clean_text(text) ==
  IF text = "<b>Tomates, olives et thon</b>" THEN "Tomates, olives et thon"
  ELSE text

\* is_ui_text_simple (menu.py 510-540) and is_ui_text (main.py 1009-1025)
is_ui_text_simple(text) == text \in {"Ajouter", "Ajouter au panier"}

is_ui_text(text) == text \in {"Ajouter", "Ajouter au panier"}

\* obvious_price_patterns and the standalone quantity (menu.py 436-455)
MatchesObviousPricePattern(text) ==
  text \in {"(4,80 EUR/kg)", "9 pcs * 23.5 g", "4 x 500ml"}

\* is_likely_price_or_quantity (menu.py 426-457)
is_likely_price_or_quantity(text) ==
  IF ~TruthyStr(text) \/ TextLen(Strip(text)) < 3 THEN FALSE
  ELSE \/ MatchesObviousPricePattern(Strip(text))
       \/ OnlyDigitsAndSymbols(Strip(text)) /\ TextLen(Strip(text)) < 20

\* the title holds the name of a chain (menu.py 588-591)
is_likely_store_name(title) == title \in {"Carrefour"}

\* the inner loop of extract_with_regex_patterns (menu.py 91-112)
RECURSIVE TakeMatches(_, _, _)
TakeMatches(matches, found, max_items) ==
  IF matches = <<>> THEN found
  ELSE IF LimitReached(max_items, Len(found)) THEN found
  ELSE LET title       == clean_text_simple(Head(matches).title)
           description == clean_text_simple(Head(matches).description)
       IN  TakeMatches(Tail(matches),
                       IF TextLen(title) > 2 /\ TextLen(description) > 8
                       THEN Append(found, MenuItem(title, description))
                       ELSE found,
                       max_items)

\* the loop over the patterns (menu.py 85-119)
RECURSIVE TryPatterns(_, _, _)
TryPatterns(pattern_matches, i, max_items) ==
  IF i > Len(pattern_matches) THEN <<>>
  ELSE LET found == TakeMatches(pattern_matches[i], <<>>, max_items)
       IN  IF found # <<>> THEN found
           ELSE TryPatterns(pattern_matches, i + 1, max_items)

\* menu.py 60-125
extract_with_regex_patterns(page, max_items) ==
  IF page.source_raises THEN <<>>
  ELSE TryPatterns(page.pattern_matches, 1, max_items)

\* len(element_text): the lines and the newlines between them
RECURSIVE ElementLen(_)
ElementLen(element) ==
  IF element = <<>> THEN 0
  ELSE IF Len(element) = 1 THEN TextLen(element[1])
  ELSE TextLen(Head(element)) + 1 + ElementLen(Tail(element))

\* parse_element_text_simple (menu.py 460-485): title and description
RECURSIVE ParseLines(_, _)
ParseLines(element, title) ==
  IF element = <<>> THEN <<title, "">>
  ELSE LET line == Head(element)
       IN  IF TextLen(line) > 2 /\ ~is_ui_text_simple(line)
           THEN IF title = "" THEN ParseLines(Tail(element), line)
                ELSE IF TextLen(line) > 10 THEN <<title, line>>
                ELSE ParseLines(Tail(element), title)
           ELSE ParseLines(Tail(element), title)

parse_element_text_simple(element) == ParseLines(element, "")

\* the loop over the elements (menu.py 175-206)
RECURSIVE TakeElements(_, _, _, _)
TakeElements(elements, found, processed_texts, max_items) ==
  IF elements = <<>> THEN found
  ELSE LET element == Head(elements)
       IN  IF element = <<>> \/ ElementLen(element) < 10
              \/ element \in processed_texts
           THEN TakeElements(Tail(elements), found, processed_texts, max_items)
           ELSE LET parsed == parse_element_text_simple(element)
                    next   == IF /\ parsed[1] # ""
                                 /\ parsed[2] # ""
                                 /\ TextLen(parsed[1]) > 2
                              THEN Append(found, MenuItem(parsed[1], parsed[2]))
                              ELSE found
                IN  IF LimitReached(max_items, Len(next)) THEN next
                    ELSE TakeElements(Tail(elements), next,
                                      processed_texts \cup {element}, max_items)

\* menu.py 128-211; page.elements are the elements of the first selector
\* that is tried, used when it finds more than 2
extract_with_dom_fallback(page, max_items) ==
  IF page.dom_raises THEN <<>>
  ELSE IF Len(page.elements) <= 2 THEN <<>>
  ELSE TakeElements(page.elements, <<>>, {}, max_items)

\* the description looked for in the next three lines (menu.py 273-281)
RECURSIVE FindDescription(_, _, _, _)
FindDescription(lines, j, last, processed_lines) ==
  IF j > last THEN ""
  ELSE IF /\ TextLen(lines[j]) > 15
          /\ ~is_ui_text_simple(lines[j])
          /\ lines[j] \notin processed_lines
       THEN clean_text_simple(lines[j])
       ELSE FindDescription(lines, j + 1, last, processed_lines)

\* the loop over the lines (menu.py 257-299)
RECURSIVE TakeLines(_, _, _, _, _)
TakeLines(lines, i, found, processed_lines, max_items) ==
  IF i > Len(lines) THEN found
  ELSE LET line == lines[i]
       IN  IF \/ TextLen(line) < 5 \/ TextLen(line) > 100
              \/ line \in processed_lines
              \/ is_ui_text_simple(line)
           THEN TakeLines(lines, i + 1, found, processed_lines, max_items)
           ELSE LET title == clean_text_simple(line)
                    last  == IF i + 3 < Len(lines) THEN i + 3 ELSE Len(lines)
                    description ==
                      FindDescription(lines, i + 1, last, processed_lines)
                IN  IF title # "" /\ TextLen(title) > 3
                    THEN LET next == Append(found,
                                       MenuItem(title,
                                                IF description # ""
                                                THEN description ELSE "N/A"))
                             seen == processed_lines \cup {line}
                                       \cup (IF description # ""
                                             THEN {description} ELSE {})
                         IN  IF LimitReached(max_items, Len(next)) THEN next
                             ELSE TakeLines(lines, i + 1, next, seen, max_items)
                    ELSE TakeLines(lines, i + 1, found, processed_lines,
                                   max_items)

\* menu.py 240-306
extract_restaurant_simple_fallback(page, max_items) ==
  IF page.body_raises THEN <<>>
  ELSE TakeLines(page.lines, 1, <<>>, {}, max_items)

\* one item of clean_restaurant_items (menu.py 578-603)
KeepRestaurantItem(item) ==
  LET title == Strip(Get(item, "title", ""))
  IN  /\ TextLen(title) > 2
      /\ ~is_ui_text_simple(title)
      /\ ~is_likely_price_or_quantity(title)
      /\ ~is_likely_store_name(title)

CleanRestaurantItem(item) ==
  LET description == Strip(Get(item, "description", ""))
  IN  [ title |-> Strip(Get(item, "title", "")),
        description |-> IF /\ description # ""
                           /\ description # "N/A"
                           /\ ~is_likely_price_or_quantity(description)
                        THEN description ELSE "N/A",
        link |-> Get(item, "link", "N/A") ]

\* menu.py 572-607
clean_restaurant_items(menu_items) ==
  LET kept == SelectSeq(menu_items, KeepRestaurantItem)
  IN  [i \in 1..Len(kept) |-> CleanRestaurantItem(kept[i])]

\* the cascade with the DOM extraction tried first
scrape_menu_for_restaurant_DomFirst(page, max_items) ==
  LET by_dom   == extract_with_dom_fallback(page, max_items)
      by_regex == IF by_dom = <<>>
                  THEN extract_with_regex_patterns(page, max_items)
                  ELSE by_dom
      by_text  == IF by_regex = <<>>
                  THEN extract_restaurant_simple_fallback(page, max_items)
                  ELSE by_regex
  IN  clean_restaurant_items(by_text)

\* menu.py 10-38; scroll_page_efficiently catches what the scrolling raises
\* (menu.py 637-653), so page.scroll_raises changes nothing
scrape_menu_for_restaurant(page, max_items) ==
  LET by_regex == extract_with_regex_patterns(page, max_items)
      by_dom   == IF by_regex = <<>>
                  THEN extract_with_dom_fallback(page, max_items)
                  ELSE by_regex
      by_text  == IF by_dom = <<>>
                  THEN extract_restaurant_simple_fallback(page, max_items)
                  ELSE by_dom
  IN  clean_restaurant_items(by_text)

\* main.py 737: a first extraction of this many items is not followed by
\* carousel navigation
GoodContentCount == 10

LongerThan(texts, n) ==
  LET long(text) == TextLen(text) > n IN SelectSeq(texts, long)

\* main.py 754-838: the texts of the items of the first method that finds
\* some
extract_all_store_items(page) ==
  LET specific == LongerThan(page.specific_spans, 5)
      rich     == LongerThan(page.rich_spans, 5)
      generic(text) == /\ TextLen(text) > 10
                       /\ TextLen(text) < 200
                       /\ ~is_ui_text(text)
  IN  IF specific # <<>> THEN specific
      ELSE IF rich # <<>> THEN rich
      ELSE SelectSeq(page.all_spans, generic)

\* the loop of process_store_items (main.py 845-866)
RECURSIVE TakeProducts(_, _, _)
TakeProducts(all_items, products, max_items) ==
  IF all_items = <<>> THEN products
  ELSE IF LimitReached(max_items, Len(products)) THEN products
  ELSE LET description == clean_text(Head(all_items))
           seen        == { products[i].description : i \in 1..Len(products) }
       IN  TakeProducts(Tail(all_items),
                        IF /\ TextLen(description) > 10
                           /\ TextLen(description) < 300
                           /\ ~is_ui_text(description)
                           /\ description \notin seen
                        THEN Append(products, StoreProduct(description))
                        ELSE products,
                        max_items)

\* the second pass of process_store_items (main.py 868-876)
RECURSIVE UniqueByDescription(_, _)
UniqueByDescription(products, seen_descriptions) ==
  IF products = <<>> THEN <<>>
  ELSE LET desc == Get(Head(products), "description", "")
       IN  IF desc # "" /\ desc \notin seen_descriptions
           THEN <<Head(products)>> \o
                UniqueByDescription(Tail(products), seen_descriptions \cup {desc})
           ELSE UniqueByDescription(Tail(products), seen_descriptions)

\* main.py 840-882
process_store_items(all_items, max_items) ==
  UniqueByDescription(TakeProducts(all_items, <<>>, max_items), {})

\* the loop over the carousels (main.py 697-709); page.carousels[i] is what
\* navigate_single_carousel returns for the i-th button
RECURSIVE CollectCarousels(_, _)
CollectCarousels(carousels, all_items) ==
  IF carousels = <<>> THEN all_items
  ELSE LET existing_texts == { all_items[i] : i \in 1..Len(all_items) }
           new(text)      == text \notin existing_texts
       IN  CollectCarousels(Tail(carousels),
                            all_items \o SelectSeq(Head(carousels), new))

\* main.py 670-720
navigate_carousels_and_extract(page, initial_items, max_items) ==
  IF page.navigation_raises THEN process_store_items(initial_items, max_items)
  ELSE process_store_items(CollectCarousels(page.carousels, initial_items),
                           max_items)

\* main.py 722-752
scrape_store_carousels(page, max_items) ==
  IF page.load_raises THEN <<>>
  ELSE LET all_items == extract_all_store_items(page)
       IN  IF Len(all_items) >= GoodContentCount
           THEN process_store_items(all_items, max_items)
           ELSE navigate_carousels_and_extract(page, all_items, max_items)

\* scrape_items_thread (main.py 1102-1107) on the content of the page
ScrapeItems ==
  /\ thread = "running"
  /\ content # NoContent
  /\ items' = IF est.establishment_type = "store"
              THEN scrape_store_carousels(content, max_menu_items)
              ELSE scrape_menu_for_restaurant(content, max_menu_items)
  /\ thread' = "done"
  /\ items_from' = current_page
  /\ UNCHANGED << listing, restaurants_file, stores_file, max_restaurants,
                  scraped_urls, scraped_store_names, establishments_data, pc,
                  page_count, total_scraped, remaining, index,
                  successful_count, handles, focus, est, info_ok, items_error,
                  join_timed_out, job_status, opened, result, files_before,
                  saved_from, content, max_menu_items, current_page, active_jobs, jobs, cls_page, cls_type >>

(***************************************************************************)
(* get_info on one page, over the contents a page can have                 *)
(***************************************************************************)
SeqsUpTo(S, n) == UNION { [1..k -> S] : k \in 0..n }

Match(t, d) == [title |-> t, description |-> d]

Matches ==
  { Match("Salade", "Tomates, olives et thon"),
    Match("Croque", "Fresh organic tomatoes from Provence"),
    Match("<b>Salade</b>", "Fresh organic tomatoes from Provence"),
    Match("ab", "Tomates") }

Elements ==
  { <<"Salade", "Tomates, olives et thon">>,
    <<"Croque", "Ajouter", "Fresh organic tomatoes from Provence">>,
    <<"ab">> }

Lines == {"Salade", "Croque", "Tomates, olives et thon", "Ajouter"}

SpanTexts ==
  { "Fresh organic tomatoes from Provence", "<b>Tomates, olives et thon</b>",
    "Tomates, olives et thon", "Ajouter au panier" }

RestaurantPage(pattern_matches, elements, lines) ==
  [ kind |-> "restaurant", scroll_raises |-> FALSE, source_raises |-> FALSE,
    pattern_matches |-> pattern_matches, dom_raises |-> FALSE,
    elements |-> elements, body_raises |-> FALSE, lines |-> lines ]

SomeElements ==
  << <<"Salade", "Tomates, olives et thon">>,
     <<"Croque", "Ajouter", "Fresh organic tomatoes from Provence">>,
     <<"Croque", "Tomates, olives et thon">> >>

SomeLines == <<"Salade", "Tomates, olives et thon", "Croque">>

NoMatches == << <<>>, <<>>, <<>>, <<>> >>

\* pages that differ in what the patterns match
RegexPages ==
  { RestaurantPage(<< first, second, <<>>, <<>> >>, SomeElements, SomeLines) :
      first \in SeqsUpTo(Matches, MaxMatches),
      second \in {<<>>, <<Match("Croque", "Tomates, olives et thon")>>} }

\* pages where no pattern matches, or the page source cannot be read
DomPages ==
  { [RestaurantPage(NoMatches, elements, SomeLines)
       EXCEPT !.source_raises = raises] :
      elements \in SeqsUpTo(Elements, MaxElements), raises \in BOOLEAN }

\* pages where no selector finds enough elements, or the search raises
TextPages ==
  { [RestaurantPage(NoMatches, <<>>, lines) EXCEPT !.dom_raises = raises] :
      lines \in SeqsUpTo(Lines, MaxLines), raises \in BOOLEAN }

\* pages where scrolling or reading the body raises, and a page where
\* every strategy raises
FailingPages ==
  { [RestaurantPage(NoMatches, <<>>, SomeLines) EXCEPT !.scroll_raises = TRUE],
    [RestaurantPage(NoMatches, <<>>, SomeLines) EXCEPT !.body_raises = TRUE],
    [RestaurantPage(<< <<Match("Salade", "Tomates, olives et thon")>>,
                       <<>>, <<>>, <<>> >>, SomeElements, SomeLines)
       EXCEPT !.source_raises = TRUE, !.dom_raises = TRUE,
              !.body_raises = TRUE] }

RestaurantPages == RegexPages \cup DomPages \cup TextPages \cup FailingPages

StorePage(specific_spans, rich_spans, all_spans, carousels) ==
  [ kind |-> "store", load_raises |-> FALSE,
    specific_spans |-> specific_spans, rich_spans |-> rich_spans,
    all_spans |-> all_spans, navigation_raises |-> FALSE,
    carousels |-> carousels ]

CarouselContents ==
  { <<>>,
    << <<"Lait entier">> >>,
    << <<"Lait entier", "Fresh organic tomatoes from Provence">>,
       <<"Fresh organic tomatoes from Provence", "Tomates, olives et thon",
         "Tomates">> >> }

\* pages that differ in the spans of the first method and in the carousels
SpanPages ==
  { [StorePage(spans \o Repeat("Lait entier", fill), <<"Lait entier">>, <<>>,
               carousels) EXCEPT !.navigation_raises = raises] :
      spans \in SeqsUpTo(SpanTexts, MaxSpans),
      fill \in {0, GoodContentCount},
      carousels \in CarouselContents,
      raises \in BOOLEAN }

\* pages where the first method finds nothing, or the page does not load
GenericPages ==
  { [StorePage(<<>>, rich_spans, all_spans, <<>>) EXCEPT !.load_raises = raises] :
      rich_spans \in {<<>>, <<"Lait entier", "Tomates">>},
      all_spans \in {<<>>, <<"Pain bio", "Ajouter au panier",
                             "Fresh organic tomatoes from Provence",
                             "Tomates, olives et thon">>},
      raises \in BOOLEAN }

StorePages == SpanPages \cup GenericPages

\* get_info is about to be called on the page of the only card
InitExtract ==
  /\ \/ /\ content \in StorePages
        /\ listing = <<Card("u1", PageName("u1"))>>
     \/ /\ content \in RestaurantPages
        /\ listing = <<Card("u3", PageName("u3"))>>
  /\ max_menu_items \in {NoLimit} \cup 0..MaxItems
  /\ current_page = listing[1].href
  /\ items_from = NoPageRead
  /\ active_jobs = {}
  /\ jobs = NoJobs
  /\ restaurants_file = NoFile
  /\ stores_file = NoFile
  /\ max_restaurants = 0
  /\ scraped_urls = {}
  /\ scraped_store_names = {}
  /\ establishments_data = <<>>
  /\ pc = "get_info"
  /\ page_count = 1
  /\ total_scraped = 0
  /\ remaining = 0
  /\ index = 1
  /\ successful_count = 0
  /\ handles = <<"listing", "tab">>
  /\ focus = "tab"
  /\ est = NoRecord
  /\ info_ok = FALSE
  /\ items = <<>>
  /\ items_error = FALSE
  /\ thread = "idle"
  /\ join_timed_out = FALSE
  /\ job_status = "running"
  /\ opened = <<>>
  /\ result = NoResult
  /\ files_before = [restaurants |-> NoFile, stores |-> NoFile]
  /\ saved_from = <<>>
  /\ cls_page = NoPage
  /\ cls_type = "none"

NextExtract ==
  \/ GetInfoStart
  \/ GetInfoFails
  \/ NavigateToInfo
  \/ ScrapeItems
  \/ ThreadRaises
  \/ JoinReturns
  \/ ClearItems
  \/ SetItems
  \/ SetCount

SpecExtract == InitExtract /\ [][NextExtract]_vars

\* the item list of the record get_info is building or has returned
RecordItems == Get(est, ItemsKey(Get(est, "establishment_type", "none")), <<>>)

\* the items the page would give without a limit
Offered ==
  IF Get(est, "establishment_type", "none") = "store"
  THEN scrape_store_carousels(content, NoLimit)
  ELSE scrape_menu_for_restaurant(content, NoLimit)

\* C18: when max_menu_items is a positive integer m, the list the extraction
\* leaves and the item list of the record get_info returns have at most m
\* items, whichever extraction path produced them.
C18_MaxItemsRespected ==
  max_menu_items > 0 =>
    /\ Len(items) <= max_menu_items
    /\ Len(RecordItems) <= max_menu_items

\* get_info has returned a record holding exactly m items of a page that
\* offers more than m
C18_Witness ==
  /\ pc = "got_info" /\ info_ok
  /\ max_menu_items > 0
  /\ Len(RecordItems) = max_menu_items
  /\ Len(Offered) > max_menu_items


(***************************************************************************)
(* The two price predicates                                                *)
(***************************************************************************)
\* the descriptions the cleaning is given
DescriptionsBefore ==
  IF files_before.stores = NoFile THEN {}
  ELSE { p.description : p \in ProductsOfFile(files_before.stores) }

\* C21: is_likely_price_or_quantity (menu.py) and is_price_only_description
\* (main.py) give the same answer on every description handed to the
\* cleaning, empty, short, letterless and multiplier texts included.
C21_SamePredicate ==
  \A d \in DescriptionsBefore :
    is_likely_price_or_quantity(d) = is_price_only_description(d)


(***************************************************************************)
(* The extraction cascade                                                  *)
(***************************************************************************)
\* the list the cascade hands to clean_restaurant_items: the result of the
\* first strategy, in the order patterns, DOM, text, that is not empty
FirstNonEmpty(by_regex, by_dom, by_text) ==
  IF by_regex # <<>> THEN by_regex
  ELSE IF by_dom # <<>> THEN by_dom
  ELSE by_text

ThreadStoresItems ==
  /\ thread = "running" /\ thread' = "done" /\ ~items_error'
  /\ content.kind = "restaurant"

\* C22: the cascade returns the cleaned result of the first non-empty
\* strategy in the order pattern extraction, DOM extraction, text
\* fallback; a strategy that fails contributes the empty list; the cascade
\* always returns a list, the empty one when every strategy fails.
C22_CascadeOrder ==
  [][ ThreadStoresItems =>
        LET by_regex == extract_with_regex_patterns(content, max_menu_items)
            by_dom   == extract_with_dom_fallback(content, max_menu_items)
            by_text  == extract_restaurant_simple_fallback(content,
                                                           max_menu_items)
        IN  /\ items' = clean_restaurant_items(
                          FirstNonEmpty(by_regex, by_dom, by_text))
            /\ content.source_raises => by_regex = <<>>
            /\ content.dom_raises => by_dom = <<>>
            /\ content.body_raises => by_text = <<>>
            /\ ( /\ content.source_raises
                 /\ content.dom_raises
                 /\ content.body_raises ) => items' = <<>> ]_vars

\* the page source could not be read, the DOM extraction found items and
\* the thread stored them, although the text fallback would have found
\* others
C22_Witness ==
  /\ thread = "done" /\ ~items_error
  /\ content.kind = "restaurant"
  /\ content.source_raises
  /\ items # <<>>
  /\ items = clean_restaurant_items(
               extract_with_dom_fallback(content, max_menu_items))
  /\ items # clean_restaurant_items(
               extract_restaurant_simple_fallback(content, max_menu_items))


(***************************************************************************)
(* Duplicates within one extraction                                        *)
(***************************************************************************)
Distinct(seq, key) ==
  \A i, j \in 1..Len(seq) : i # j => Get(seq[i], key, "") # Get(seq[j], key, "")

\* C23: the list one extraction call returns holds no two restaurant items
\* with the same title and no two store products with the same
\* description, whichever stage produced it.
C23_NoDuplicatesInOneExtraction ==
  (pc = "got_info" /\ info_ok) =>
    IF est.establishment_type = "store"
    THEN Distinct(RecordItems, "description")
    ELSE Distinct(RecordItems, "title")


(***************************************************************************)
(* Store names among the records of a run                                  *)
(***************************************************************************)
\* the store records the save step hands to the stores file
StoresHanded ==
  StoresOf(IF pc = "done" THEN saved_from ELSE establishments_data)

NormalizedName(establishment) ==
  normalize_store_name(Get(establishment, "name", NA))

\* the names load_existing_urls puts in the ledger
NamesLoaded ==
  IF files_before.stores.exists THEN StoreNamesOf(files_before.stores) ELSE {}

\* C24: among the store records a run hands to the save step no two have
\* the same non-empty normalized name, and none has a normalized name the
\* ledger held when it was loaded.
C24_StoreNamesDistinct ==
  /\ \A i, j \in 1..Len(StoresHanded) :
       (i # j /\ NormalizedName(StoresHanded[i]) # <<>>)
         => NormalizedName(StoresHanded[i]) # NormalizedName(StoresHanded[j])
  /\ \A i \in 1..Len(StoresHanded) :
       NormalizedName(StoresHanded[i]) \notin NamesLoaded

\* two stores with the same normalized name were opened and one of them was
\* handed to the save step
C24_Witness ==
  /\ pc = "done"
  /\ \E i, j \in 1..Len(opened) :
       /\ opened[i] # opened[j]
       /\ PageType(opened[i]) = "store" /\ PageType(opened[j]) = "store"
       /\ normalize_store_name(PageName(opened[i]))
            = normalize_store_name(PageName(opened[j]))
  /\ Len(StoresHanded) = 1


(***************************************************************************)
(* Tabs opened during a run                                                *)
(***************************************************************************)
\* C25: within one run each establishment URL is opened in a new tab at
\* most once, over all pages, also when its visit failed or its record was
\* rejected after extraction.
C25_OpenedAtMostOnce ==
  \A i, j \in 1..Len(opened) : i # j => opened[i] # opened[j]


(***************************************************************************)
(* The page under the extraction thread                                    *)
(***************************************************************************)
\* C26: while the extraction thread runs, the window the driver is on
\* shows the establishment's own page, and the items get_info returns in a
\* record were extracted from the page of the record's URL.
C26_ThreadReadsOwnPage ==
  /\ thread = "running" => current_page = est.url
  /\ (pc = "got_info" /\ info_ok /\ items_from # NoPageRead)
       => items_from = est.url


(***************************************************************************)
(* The job registry (app.py).  jobs[id] holds how far the handler of       *)
(* POST /scrape is with the request that created the job (request), how    *)
(* far run_scraping_job is in its thread (worker) and job.status.          *)
(***************************************************************************)
\* app.py 2342-2349: the job object is created and its thread is started
PostScrape(id) ==
  /\ jobs[id].request = "none"
  /\ jobs' = [jobs EXCEPT ![id] = [ request |-> "started", worker |-> "new",
                                    status |-> "starting" ]]
  /\ UNCHANGED << listing, restaurants_file, stores_file, max_restaurants,
                  scraped_urls, scraped_store_names, establishments_data, pc,
                  page_count, total_scraped, remaining, index,
                  successful_count, handles, focus, est, info_ok, items,
                  items_error, thread, join_timed_out, job_status, opened,
                  result, files_before, saved_from, content, max_menu_items,
                  current_page, items_from, active_jobs, cls_page, cls_type >>

\* app.py 2351-2376: the handler returns the response that holds the job id
ScrapeResponse(id) ==
  /\ jobs[id].request = "started"
  /\ jobs' = [jobs EXCEPT ![id].request = "responded"]
  /\ UNCHANGED << listing, restaurants_file, stores_file, max_restaurants,
                  scraped_urls, scraped_store_names, establishments_data, pc,
                  page_count, total_scraped, remaining, index,
                  successful_count, handles, focus, est, info_ok, items,
                  items_error, thread, join_timed_out, job_status, opened,
                  result, files_before, saved_from, content, max_menu_items,
                  current_page, items_from, active_jobs, cls_page, cls_type >>

\* app.py 2228-2229: the thread sets the status and registers the job
RegisterJob(id) ==
  /\ jobs[id].worker = "new"
  /\ jobs' = [jobs EXCEPT ![id].worker = "scraping", ![id].status = "running"]
  /\ active_jobs' = active_jobs \cup {id}
  /\ UNCHANGED << listing, restaurants_file, stores_file, max_restaurants,
                  scraped_urls, scraped_store_names, establishments_data, pc,
                  page_count, total_scraped, remaining, index,
                  successful_count, handles, focus, est, info_ok, items,
                  items_error, thread, join_timed_out, job_status, opened,
                  result, files_before, saved_from, content, max_menu_items,
                  current_page, items_from,  cls_page, cls_type >>

\* app.py 2235-2243, 2267-2269: perform_full_scrape returns or raises and
\* the status is set; the thread goes to sleep for two hours (2273)
JobScrapeReturns(id) ==
  /\ jobs[id].worker = "scraping"
  /\ \E final \in {"completed", "failed"} :
       jobs' = [jobs EXCEPT ![id].worker = "sleeping", ![id].status = final]
  /\ UNCHANGED << listing, restaurants_file, stores_file, max_restaurants,
                  scraped_urls, scraped_store_names, establishments_data, pc,
                  page_count, total_scraped, remaining, index,
                  successful_count, handles, focus, est, info_ok, items,
                  items_error, thread, join_timed_out, job_status, opened,
                  result, files_before, saved_from, content, max_menu_items,
                  current_page, items_from, active_jobs, cls_page, cls_type >>

\* app.py 2274-2275: two hours later the job is removed
ExpireJob(id) ==
  /\ jobs[id].worker = "sleeping"
  /\ jobs' = [jobs EXCEPT ![id].worker = "expired"]
  /\ active_jobs' = active_jobs \ {id}
  /\ UNCHANGED << listing, restaurants_file, stores_file, max_restaurants,
                  scraped_urls, scraped_store_names, establishments_data, pc,
                  page_count, total_scraped, remaining, index,
                  successful_count, handles, focus, est, info_ok, items,
                  items_error, thread, join_timed_out, job_status, opened,
                  result, files_before, saved_from, content, max_menu_items,
                  current_page, items_from,  cls_page, cls_type >>

\* POST /stop/<id> by a client that holds the id (app.py 2562-2573); when
\* the id is not in active_jobs the answer is 404 and nothing changes
StopRequest(id) ==
  /\ jobs[id].request = "responded"
  /\ id \in active_jobs
  /\ jobs[id].status # "stopped"
  /\ jobs' = [jobs EXCEPT ![id].status = "stopped"]
  /\ UNCHANGED << listing, restaurants_file, stores_file, max_restaurants,
                  scraped_urls, scraped_store_names, establishments_data, pc,
                  page_count, total_scraped, remaining, index,
                  successful_count, handles, focus, est, info_ok, items,
                  items_error, thread, join_timed_out, job_status, opened,
                  result, files_before, saved_from, content, max_menu_items,
                  current_page, items_from, active_jobs, cls_page, cls_type >>

InitJobs ==
  /\ NoRun
  /\ cls_page = NoPage
  /\ cls_type = "none"

NextJobs ==
  \E id \in JobIds :
    \/ PostScrape(id)
    \/ ScrapeResponse(id)
    \/ RegisterJob(id)
    \/ JobScrapeReturns(id)
    \/ ExpireJob(id)
    \/ StopRequest(id)

SpecJobs == InitJobs /\ [][NextJobs]_vars

\* GET /job/<id> and POST /stop/<id> find the job (app.py 2390, 2566)
JobFound(id) == id \in active_jobs

\* C28: from the moment the response of POST /scrape is sent until the job
\* expires, a request for the job id finds the job in active_jobs.
C28_JobKnownAfterResponse ==
  \A id \in JobIds :
    (jobs[id].request = "responded" /\ jobs[id].worker # "expired")
      => JobFound(id)


(***************************************************************************)
(* Browser windows                                                         *)
(***************************************************************************)
InRange(seq) == { seq[i] : i \in 1..Len(seq) }

\* C29: after every card iteration of get_establishment, whatever path it
\* took, exactly one window is open, it is the listing window and the
\* driver is on it; the listing window is never closed.
C29_OnlyListingWindowAfterCard ==
  /\ pc = "card" => (handles = <<"listing">> /\ focus = "listing")
  /\ "listing" \in InRange(handles)


(***************************************************************************)
(* The counts of the run's result                                          *)
(***************************************************************************)
\* C30: in the result scrape_page returns, establishments_scraped equals
\* restaurants_scraped + stores_scraped and equals the number of records
\* accepted during the traversal, also when the save step hit an error.
C30_CountsAgree ==
  result.returned =>
    /\ result.establishments_scraped
         = result.restaurants_scraped + result.stores_scraped
    /\ result.establishments_scraped = Len(saved_from)


(***************************************************************************)
(* Re-categorization of what the cascade extracts                          *)
(***************************************************************************)
\* the test of main.py 1387-1398 on a list of menu items
WouldFlip(menu_items) ==
  /\ menu_items # <<>>
  /\ MostlyUntitled(menu_items)
  /\ detect_establishment_type_from_items(menu_items) = "store"

\* the lists the cascade can return on the pages of the model
CascadeOutputs ==
  { scrape_menu_for_restaurant(page, max_items) :
      page \in RestaurantPages \cup { InfoContent(p) : p \in RestaurantPages },
      max_items \in {NoLimit} \cup 0..MaxItems }

\* C27: when get_info is called on a restaurant, some list the cascade can
\* return, after clean_restaurant_items, has fewer titled items than 30% of
\* its items with a description, so that the save step flips the record to
\* store.
C27_RecategorizationReachable ==
  pc = "get_info" => \E menu_items \in CascadeOutputs : WouldFlip(menu_items)

\* every item the cascade returns has a title, so in no record get_info
\* returns for a restaurant does the test of the save step succeed
C27_CascadeItemsAreTitled ==
  (pc = "got_info" /\ info_ok /\ est.establishment_type = "restaurant") =>
    /\ \A i \in 1..Len(RecordItems) :
         TruthyStr(Get(RecordItems[i], "title", ""))
    /\ Recategorize(est) = est

====
